---- MODULE Spec2Model ----
(***************************************************************************)
(* Health supervisor of the desktop host: the orchestrator state machine   *)
(* (orchestrator.ts) and the runtime checker's polling timer and           *)
(* single-flight immediate check (runtime-checker.ts).                     *)
(*                                                                         *)
(* The specifications share the variables:                                 *)
(*   Spec          the orchestrator: initialisation, health events, the    *)
(*                 polling callback, recovery, manual triggers, shutdown;  *)
(*   SpecRecovery  the escalation ladder, from an initialised system;      *)
(*   SpecRing      a long stream of events filling the recentEvents ring;  *)
(*   SpecCheck     the immediate check: callers, the clock, scan           *)
(*                 completion;                                             *)
(*   SpecRegistry  registrations and unregistrations in the registry;      *)
(*   SpecScan      the scan of the immediate check over the registry;      *)
(*   SpecProbes    the startup checks and their four probes;               *)
(*   SpecCleaner   cleanupOrphans and killProcess over the process table;  *)
(*   SpecRuns      successive runs of the host and the instance marker;    *)
(*   SpecConfig    the config probe over the configuration file;           *)
(*   SpecSessions  the agent sessions: creation, requests, invalidation.   *)
(* The recovery manager, the event bus and the process guardian are not    *)
(* part of the available sources; what the orchestrator calls in them is   *)
(* modelled from the specification text and marked so in the model map.    *)
(***************************************************************************)
EXTENDS Integers, Sequences, FiniteSets, TLC

\* ------------------------------------------------------------------ bounds

\* health events emitted before the environment falls silent, under Spec
MaxEvents == 2
\* the same under SpecRecovery, where the escalation ladder is climbed
MaxLadderEvents == 3
\* recoveryAttempts is an unbounded counter in the code: a manual trigger is
\* taken only while it is below this cap
MaxAttempts == 1
\* exceptions raised inside the orchestrator before the faults stop
MaxFaults == 5
\* health events emitted under SpecRing, enough to overflow recentEvents
MaxRingEvents == 52
\* sessions the SDK creates before the conversations fall silent
MaxSessions == 3
\* calls of runImmediateCheck before the callers fall silent
MaxCalls == 3
\* the wall clock stops advancing at this many milliseconds
MaxTime == 4000

\* how many times the host process ends and is started again
MaxRuns == 3

\* ------------------------------------------------------- program constants

\* orchestrator.ts:61
MAX_SELF_FAILURES == 5
\* orchestrator.ts:155, the literal 50 of the recentEvents ring
MAX_RECENT_EVENTS == 50
\* runtime-checker.ts:43
MIN_CHECK_INTERVAL_MS == 2000

\* ---------------------------------------------------------------- domains

Statuses == {"healthy", "degraded", "unhealthy"}

Strategies == {"S1", "S2", "S3", "S4"}

\* the value of a strategyId that is null
NoStrategy == "null"

\* HealthEvent {type, category, source}; timestamp, message and data are
\* never read by the orchestrator's transitions
Events ==
  { [type |-> "recovery_success", category |-> "info",     source |-> "recovery"],
    [type |-> "startup_check",    category |-> "info",     source |-> "startup"],
    [type |-> "config_change",    category |-> "info",     source |-> "config"],
    [type |-> "probe_warning",    category |-> "warning",  source |-> "runtime"],
    [type |-> "process_exit",     category |-> "critical", source |-> "agent"] }

\* The calls made inside the try blocks of handleHealthEvent and
\* initializeHealthSystem that leave this file; each may raise. "none": no
\* call raises.
HandlerFaults == {"none", "updateErrorCount", "selectRecoveryStrategy",
                  "canRecover", "sendToRenderer"}

InitFaults == {"none", "injectSessionCleanup", "onHealthEvent"}

\* the calls the handling of an event can reach (orchestrator.ts:164, 174,
\* 177, 182, 213)
FaultsOf(event) ==
  IF event.category = "critical" THEN HandlerFaults
  ELSE IF event.category = "warning" THEN {"none", "sendToRenderer"}
  ELSE IF event.type = "recovery_success" \/ event.type = "startup_check"
    THEN {"none", "updateErrorCount"}
  ELSE {"none"}

\* what canRecover() can answer where the handling of an event asks it
AnswersOf(event) == IF event.category = "critical" THEN BOOLEAN ELSE {TRUE}

\* --------------------------------------------------------------- variables

VARIABLES
  systemState,          \* orchestrator.ts: systemState
  selfFailures,         \* orchestrator.ts: selfFailures
  pollIntervalId,       \* runtime-checker.ts: pollIntervalId # null
  healthChangeCallback, \* runtime-checker.ts: healthChangeCallback # null
  lastKnownStatus,      \* runtime-checker.ts: lastKnownStatus
  lastComputed,         \* history: the status the last passive check computed
  lastReported,         \* history: the health:status-change message the last step sent
  handlerRegistered,    \* event bus: handleHealthEvent is subscribed
  recoveries,           \* attemptRecovery / attemptRecoveryWithUI calls awaiting their result
  emitted,              \* history: the health events emitted so far, newest first
  handled,              \* history: the events handled while enabled, newest first
  lastRun,              \* history: the disruptive recovery the last step executed
  selections,           \* history: strategies selected in the current run of critical events
  now,                  \* Date.now(), in milliseconds
  lastCheckTime,        \* runtime-checker.ts: lastCheckTime, 0 for null
  isCheckRunning,       \* runtime-checker.ts: isCheckRunning
  lastCheckPromise,     \* runtime-checker.ts: lastCheckPromise, as the number of its scan; 0 for null
  running,              \* the doImmediateCheck executions that have not reached their finally
  scans,                \* how many doImmediateCheck executions were started
  calls,                \* history: the runImmediateCheck calls made so far, oldest first
  registry,             \* process registry: the ProcessEntry records it holds
  live,                 \* history: per (id, type), the entry registered last and not unregistered since
  report,               \* the ImmediateCheckResult of the last scan, with what the scan read
  probeState,           \* startup checks: per probe, idle, pending or what safeProbe resolved to
  startup,              \* startup checks: idle, running, or the StartupCheckResult returned
  timeouts,             \* history: the probes withTimeout cut off in the current startup checks
  procs,                \* the operating system's process table, per pid
  signalled,            \* history: the processes cleanupOrphans sent a kill signal to
  lastKill,             \* history: the last killProcess call, how it ended and what it left
  cleanups,             \* how many cleanupOrphans calls have completed
  fresh,                \* history: a process appeared since the last cleanupOrphans call
  lastCleanup,          \* the CleanupResult of the last cleanupOrphans call
  marker,               \* instance marker: the file on disk and what this run read of the last exit
  shutDown,             \* history: this run has executed shutdownHealthSystem
  prevShutDown,         \* history: the run before this one had executed shutdownHealthSystem
  lastExitRead,         \* history: what wasLastExitClean() returned last in this run
  ended,                \* how many runs of the host have ended
  configFile,           \* the configuration file on disk
  configResult,         \* config probe: idle, or what the last runConfigProbe call gave
  lastQuery,            \* history: the last process enumeration, what it read and what it gave
  diskConfig,           \* config.service: the configuration in config.json
  apiConfigChangeHandlers,\* config.service: apiConfigChangeHandlers, oldest first
  pendingNotify,        \* the setTimeout(..., 0) callbacks of saveConfig that have not run
  saves,                \* how many saveConfig calls were made
  lastSave,             \* history: what the last saveConfig call changed and whether it set the timer
  lastNotify,           \* history: how often the last timer callback called each handler
  v2Sessions,           \* part_004: v2Sessions, per conversation the session kept or NoSession
  activeSessions,       \* part_004: the conversations with a request in flight
  pendingInvalidations, \* part_004: pendingInvalidations
  creating,             \* per conversation, the getOrCreateV2Session calls awaiting the SDK
  created,              \* the sessions the SDK has created so far
  spawned,              \* history: the sessions created and not closed, their child running
  owed                  \* history: the sessions invalidateAllSessions found in v2Sessions

orchVars == <<systemState, selfFailures, pollIntervalId,
              healthChangeCallback, lastKnownStatus, lastComputed, lastReported,
              handlerRegistered, recoveries, emitted, handled, lastRun,
              selections>>

checkVars == <<now, lastCheckTime, isCheckRunning, lastCheckPromise,
               running, scans, calls>>

registryVars == <<registry, live, report>>

probeVars == <<probeState, startup, timeouts>>

cleanerVars == <<procs, signalled, lastKill, cleanups, fresh, lastCleanup>>

markerVars == <<marker, shutDown, prevShutDown, lastExitRead, ended>>

configVars == <<configFile, configResult>>

queryVars == <<lastQuery>>

saveVars == <<diskConfig, apiConfigChangeHandlers, pendingNotify, saves, lastSave, lastNotify>>

sessionVars == <<v2Sessions, activeSessions, pendingInvalidations, creating, created, spawned, owed>>

\* what the orchestrator's operations leave alone
nonOrchVars == <<checkVars, registryVars, probeVars, cleanerVars, markerVars, configVars,
  queryVars,
  saveVars,
  sessionVars>>

\* what the operations that write the instance marker leave alone
nonOrchMarkerVars == <<checkVars, registryVars, probeVars, cleanerVars, configVars,
  queryVars,
  saveVars,
  sessionVars>>

\* what the calls of runImmediateCheck and the clock leave alone
nonCheckVars == <<orchVars, registryVars, probeVars, cleanerVars, markerVars, configVars,
  queryVars,
  saveVars,
  sessionVars>>

\* what the registry operations and the scan leave alone
nonRegistryVars == <<orchVars, checkVars, probeVars, cleanerVars, markerVars, configVars,
  queryVars,
  saveVars,
  sessionVars>>

\* what the startup checks leave alone
nonProbeVars == <<orchVars, checkVars, registryVars, cleanerVars, markerVars, configVars,
  queryVars,
  saveVars,
  sessionVars>>

\* what the cleaner and the platform operations leave alone, the registry apart
nonCleanerVars == <<orchVars, checkVars, probeVars, markerVars, configVars,
  queryVars,
  saveVars,
  sessionVars>>

\* what the process enumerations leave alone
nonQueryVars == <<orchVars, checkVars, registryVars, probeVars, cleanerVars,
                  markerVars, configVars,
  saveVars,
  sessionVars>>

\* what the configuration service leaves alone
nonSaveVars == <<orchVars, checkVars, registryVars, probeVars, cleanerVars,
                 markerVars, configVars, queryVars,
  sessionVars>>

\* what the session operations leave alone, the registry apart
nonSessionVars == <<orchVars, checkVars, probeVars, cleanerVars, markerVars,
                    configVars, queryVars, saveVars>>

\* what the configuration file and its probe leave alone
nonConfigVars == <<orchVars, checkVars, registryVars, probeVars, cleanerVars,
                   markerVars,
  queryVars,
  saveVars,
  sessionVars>>

vars == <<orchVars, checkVars, registryVars, probeVars, cleanerVars, markerVars, configVars,
  queryVars,
  saveVars,
  sessionVars>>

\* ------------------------------------------------------ orchestrator state

\* orchestrator.ts:48-57. startedAt (a wall-clock stamp) is left out: no
\* transition reads it.
InitialSystemState ==
  [ status              |-> "healthy",
    instanceId          |-> "",
    consecutiveFailures |-> 0,
    recoveryAttempts    |-> 0,
    isPollingActive     |-> FALSE,
    isEnabled           |-> TRUE,
    recentEvents        |-> <<>> ]

\* runtime-checker.ts:87-89
isPollingActive == pollIntervalId

\* --------------------------------------------- the handler's working state

\* orchestrator.ts:213-218: the payload of health:status-change
StatusChange(status, previousStatus) ==
  [status |-> status, previousStatus |-> previousStatus]

\* no message was sent
NoStatusChange == StatusChange("none", "none")

\* Everything one synchronous run of an orchestrator entry point can change.
\* thrown: an exception is propagating to the enclosing catch.
\* sel: the strategy selectRecoveryStrategy returned in this run, if any.
World ==
  [ st     |-> systemState,
    sf     |-> selfFailures,
    poll   |-> pollIntervalId,
    cb     |-> healthChangeCallback,
    recs   |-> recoveries,
    sent   |-> NoStatusChange,
    thrown |-> FALSE,
    sel    |-> NoStrategy ]

Throw(w) == [w EXCEPT !.thrown = TRUE]

Caught(w) == [w EXCEPT !.thrown = FALSE]

\* ------------------------------------------------------- runtime checker

\* runtime-checker.ts:51-70. Returns early when the timer already runs.
startFallbackPolling(w) ==
  IF w.poll THEN w ELSE [w EXCEPT !.cb = TRUE, !.poll = TRUE]

\* runtime-checker.ts:75-82
stopFallbackPolling(w) ==
  IF w.poll THEN [w EXCEPT !.poll = FALSE, !.cb = FALSE] ELSE w

\* ------------------------------------------------------- self-protection

\* orchestrator.ts:429-433
disableHealthSystem(w) ==
  stopFallbackPolling([w EXCEPT !.st.isEnabled = FALSE])

\* Faulty variant of handleSelfError: the threshold is passed, not reached,
\* before the system is disabled.
handleSelfErrorDisablesLate(w) ==
  LET w1 == [w EXCEPT !.sf = @ + 1]
  IN  IF w1.sf > MAX_SELF_FAILURES THEN disableHealthSystem(w1) ELSE w1

\* orchestrator.ts:416-424
handleSelfError(w) ==
  LET w1 == [w EXCEPT !.sf = @ + 1]
  IN  IF w1.sf >= MAX_SELF_FAILURES THEN disableHealthSystem(w1) ELSE w1

\* -------------------------------------------------------- status updates

\* orchestrator.ts:206-222. The status is assigned before the renderer is
\* told, so a failing sendToRenderer leaves the new status in place and
\* sends nothing.
handleStatusChange(w, status, fault) ==
  IF status # w.st.status
    THEN LET w1 == [w EXCEPT !.st.status = status]
         IN  IF fault = "sendToRenderer" THEN Throw(w1)
             ELSE [w1 EXCEPT !.sent = StatusChange(status, w.st.status)]
    ELSE w

\* Faulty variant of updateStatus: a warning sets degraded whatever the
\* status was, so it pulls an unhealthy system back to degraded.
updateStatusAlwaysDegrades(w, event, fault) ==
  LET newStatus ==
        IF event.category = "critical" THEN "unhealthy"
        ELSE IF event.category = "warning" THEN "degraded"
        ELSE w.st.status
  IN  IF newStatus # w.st.status THEN handleStatusChange(w, newStatus, fault) ELSE w

\* orchestrator.ts:227-239
updateStatus(w, event, fault) ==
  LET newStatus ==
        IF event.category = "critical" THEN "unhealthy"
        ELSE IF event.category = "warning" /\ w.st.status = "healthy" THEN "degraded"
        ELSE w.st.status
  IN  IF newStatus # w.st.status THEN handleStatusChange(w, newStatus, fault) ELSE w

\* ------------------------------------------------------ recovery manager

\* selectRecoveryStrategy(consecutiveFailures, source): the escalation level
\* maps to S1 (lightest) .. S4 (full restart); the source selects nothing.
selectRecoveryStrategy(failures, source) ==
  IF failures <= 0 THEN NoStrategy
  ELSE IF failures = 1 THEN "S1"
  ELSE IF failures = 2 THEN "S2"
  ELSE IF failures = 3 THEN "S3"
  ELSE "S4"

\* the position of a strategy on the ladder, S1 lightest
Rank(strategyId) ==
  CASE strategyId = "S1" -> 1
    [] strategyId = "S2" -> 2
    [] strategyId = "S3" -> 3
    [] strategyId = "S4" -> 4
    [] OTHER -> 0

\* executeRecovery(strategyId, userConsented): S3 and S4 answer 'consent
\* required' without running anything when userConsented is false.
executeRecoveryRuns(strategyId, userConsented) ==
  strategyId \in {"S1", "S2"} \/ userConsented

\* The orchestrator functions that start a recovery and await its result.
AttemptFns == {"attemptRecovery", "attemptRecoveryWithUI"}

\* A recovery awaited by the orchestrator: the function that awaits it and
\* the strategy it was started for.
Attempt(fn, strategyId) == [fn |-> fn, strategyId |-> strategyId]

Attempts == {Attempt(fn, strategyId) : fn \in AttemptFns, strategyId \in Strategies}

\* ---------------------------------------------------------------- recovery

\* orchestrator.ts:248-252, up to the await of executeRecovery(strategyId, false)
attemptRecovery(w, strategyId) ==
  [w EXCEPT !.st.recoveryAttempts = @ + 1,
            !.recs[Attempt("attemptRecovery", strategyId)] = @ + 1]

\* orchestrator.ts:272-276, up to the await of executeRecoveryWithUI(strategyId)
attemptRecoveryWithUI(w, strategyId) ==
  [w EXCEPT !.st.recoveryAttempts = @ + 1,
            !.recs[Attempt("attemptRecoveryWithUI", strategyId)] = @ + 1]

\* Faulty variant of isAutoStrategy: S3 is recovered without the dialog.
isAutoStrategyUpToS3(strategyId) ==
  strategyId = "S1" \/ strategyId = "S2" \/ strategyId = "S3"

\* orchestrator.ts:186: the strategies recovered without asking the user
isAutoStrategy(strategyId) == strategyId = "S1" \/ strategyId = "S2"

\* orchestrator.ts:190: the strategies recovered through the consent dialog
isConsentStrategy(strategyId) == strategyId = "S3" \/ strategyId = "S4"

\* orchestrator.ts:182-193
startRecovery(w, strategyId) ==
  IF isAutoStrategy(strategyId) THEN attemptRecovery(w, strategyId)
  ELSE IF isConsentStrategy(strategyId) THEN attemptRecoveryWithUI(w, strategyId)
  ELSE w

\* ------------------------------------------------------- handleHealthEvent

\* Faulty variant of recordEvent: shift() instead of pop(), which drops
\* the event just added from a full ring.
recordEventShifts(w, event) ==
  LET added == <<event>> \o w.st.recentEvents
  IN  [w EXCEPT !.st.recentEvents =
         IF Len(added) > MAX_RECENT_EVENTS THEN Tail(added)
         ELSE added]

\* orchestrator.ts:154-157
recordEvent(w, event) ==
  LET added == <<event>> \o w.st.recentEvents
  IN  [w EXCEPT !.st.recentEvents =
         IF Len(added) > MAX_RECENT_EVENTS THEN SubSeq(added, 1, Len(added) - 1)
         ELSE added]

\* orchestrator.ts:162
isResetEvent(event) ==
  event.category = "info"
    /\ (event.type = "recovery_success" \/ event.type = "startup_check")

\* orchestrator.ts:160-167
handleInfo(w, event, fault) ==
  IF isResetEvent(event)
    THEN LET w1 == [w EXCEPT !.st.consecutiveFailures = 0]
         IN  IF fault = "updateErrorCount" THEN Throw(w1)
             ELSE [w1 EXCEPT !.st.status = "healthy"]
    ELSE w

\* Faulty variant of handleCritical: the recovery starts whatever canRecover()
\* answers.
handleCriticalIgnoresCanRecover(w, event, fault, can) ==
  IF event.category # "critical" THEN w
  ELSE
    LET w1 == [w EXCEPT !.st.consecutiveFailures = @ + 1]
        strategyId == selectRecoveryStrategy(w1.st.consecutiveFailures, event.source)
        w3 == [w1 EXCEPT !.sel = strategyId]
    IN  IF fault = "updateErrorCount" THEN Throw(w1)
        ELSE IF fault = "selectRecoveryStrategy" THEN Throw(w1)
        ELSE IF strategyId = NoStrategy THEN w3
        ELSE IF fault = "canRecover" THEN Throw(w3)
        ELSE startRecovery(w3, strategyId)

\* orchestrator.ts:170-194. canRecover() is only evaluated for a strategy
\* that is not null; can is its answer.
handleCritical(w, event, fault, can) ==
  IF event.category # "critical" THEN w
  ELSE
    LET w1 == [w EXCEPT !.st.consecutiveFailures = @ + 1]
        strategyId == selectRecoveryStrategy(w1.st.consecutiveFailures, event.source)
        w3 == [w1 EXCEPT !.sel = strategyId]
    IN  IF fault = "updateErrorCount" THEN Throw(w1)
        ELSE IF fault = "selectRecoveryStrategy" THEN Throw(w1)
        ELSE IF strategyId = NoStrategy THEN w3
        ELSE IF fault = "canRecover" THEN Throw(w3)
        ELSE IF can THEN startRecovery(w3, strategyId)
        ELSE w3

\* orchestrator.ts:152-200, the body behind the isEnabled guard
handleEnabled(w, event, fault, can) ==
  LET w1 == recordEvent(w, event)
      w2 == handleInfo(w1, event, fault)
      w3 == IF w2.thrown THEN w2 ELSE handleCritical(w2, event, fault, can)
      w4 == IF w3.thrown THEN w3 ELSE updateStatus(w3, event, fault)
  IN  IF w4.thrown THEN handleSelfError(w4) ELSE w4

\* Faulty variant of handleHealthEvent: the isEnabled guard is missing.
handleHealthEventUnguarded(w, event, fault, can) ==
  handleEnabled(w, event, fault, can)

\* orchestrator.ts:146-201
handleHealthEvent(w, event, fault, can) ==
  IF ~w.st.isEnabled THEN w ELSE handleEnabled(w, event, fault, can)

\* --------------------------------------------------- initializeHealthSystem

\* Faulty variant of initializeTry: initialisation re-arms the supervisor.
initializeTryRearms(w, fault) ==
  IF fault = "injectSessionCleanup" THEN Throw(w)
  ELSE IF fault = "onHealthEvent" THEN Throw(w)
  ELSE [startFallbackPolling(w) EXCEPT !.st.isPollingActive = TRUE,
                                       !.st.isEnabled = TRUE]

\* orchestrator.ts:101-127, the try block. injectSessionCleanup is called,
\* and can raise, only when setSessionCleanupFn (orchestrator.ts:134) has
\* stored the agent service's hook; the fault stands for both.
initializeTry(w, fault) ==
  IF fault = "injectSessionCleanup" THEN Throw(w)
  ELSE IF fault = "onHealthEvent" THEN Throw(w)
  ELSE [startFallbackPolling(w) EXCEPT !.st.isPollingActive = TRUE]

\* orchestrator.ts:93-128
initializeHealthSystem(w, fault) ==
  LET w1 == IF w.st.instanceId = "" THEN [w EXCEPT !.st.instanceId = "i1"] ELSE w
      w2 == initializeTry(w1, fault)
  IN  IF w2.thrown THEN handleSelfError(w2) ELSE w2

\* -------------------------------------------------------- instance marker

\* The instance marker (process-guardian) is not among the sources: it is
\* modelled from the specification as a file that says whether the run that
\* wrote it last had started or had exited cleanly, and what the process
\* found in it when it was started.
Marker(file, previous) == [file |-> file, previous |-> previous]

\* what a starting process finds in the marker file a run left behind
loadMarker(file) == Marker(file, IF file = "clean" THEN "clean" ELSE "crash")

\* first start of the host: no marker file
NoMarker == loadMarker("absent")

\* markInstanceStart: writes the marker of the new instance
markInstanceStart(m) == [m EXCEPT !.file = "started"]

\* markCleanExit: writes the clean-exit marker
markCleanExit(m) == [m EXCEPT !.file = "clean"]

\* wasLastExitClean: what the last run left, never what this run wrote
wasLastExitClean(m) == m.previous = "clean"

\* orchestrator.ts:78-85: initInstanceId marks the start of the instance
initInstanceId(m) == markInstanceStart(m)

\* Faulty variant of shutdownMarker: the clean exit is not marked.
shutdownMarkerSkipped(m) == m

\* orchestrator.ts:364-368: shutdownHealthSystem marks the clean exit
shutdownMarker(m) == markCleanExit(m)

\* ------------------------------------------------------------------ actions

\* The record of an executed recovery action that needs consent (S3, S4)
\* and of the consent it was executed with. S1 and S2 need none and leave
\* no record.
Run(strategyId, consented) ==
  IF strategyId \in {"S3", "S4"}
    THEN [strategyId |-> strategyId, consented |-> consented]
    ELSE [strategyId |-> NoStrategy, consented |-> FALSE]

\* the step executed no such action
NoRun == Run(NoStrategy, FALSE)

\* the variables a World holds, taken from w
Commit(w) ==
  /\ systemState' = w.st
  /\ selfFailures' = w.sf
  /\ pollIntervalId' = w.poll
  /\ healthChangeCallback' = w.cb
  /\ recoveries' = w.recs
  /\ lastReported' = w.sent

\* a call raises only while the number of exceptions is within the bound
FaultAllowed(fault) == fault = "none" \/ selfFailures < MaxFaults

\* orchestrator.ts:78-85
InitInstanceId ==
  /\ systemState' = [systemState EXCEPT !.instanceId = "i1"]
  /\ marker' = initInstanceId(marker)
  /\ lastRun' = NoRun
  /\ lastReported' = NoStatusChange
  /\ UNCHANGED <<selfFailures, pollIntervalId,
                 healthChangeCallback, lastKnownStatus, lastComputed,
                 handlerRegistered, recoveries, emitted, handled, selections>>
  /\ UNCHANGED <<shutDown, prevShutDown, lastExitRead, ended>>
  /\ UNCHANGED nonOrchMarkerVars

\* orchestrator.ts:93-128
InitializeHealthSystem ==
  \E fault \in InitFaults :
    LET w == initializeHealthSystem(World, fault)
        threw == w.sf # selfFailures
    IN  /\ FaultAllowed(fault)
        /\ Commit(w)
        /\ handlerRegistered' = (handlerRegistered \/ ~threw)
        /\ marker' = IF systemState.instanceId = "" THEN initInstanceId(marker)
                                                     ELSE marker
        /\ lastRun' = NoRun
        /\ UNCHANGED <<lastKnownStatus, lastComputed, emitted, handled,
                       selections>>
        /\ UNCHANGED <<shutDown, prevShutDown, lastExitRead, ended>>
        /\ UNCHANGED nonOrchMarkerVars

\* orchestrator.ts:146-201: the bus delivers event to handleHealthEvent,
\* subscribed at orchestrator.ts:117
Deliver(event, fault, can) ==
    LET w == handleHealthEvent(World, event, fault, can)
    IN  /\ handlerRegistered
        /\ FaultAllowed(fault)
        /\ Commit(w)
        /\ emitted' = <<event>> \o emitted
        /\ handled' = IF systemState.isEnabled THEN <<event>> \o handled
                      ELSE handled
        /\ selections' =
             IF ~systemState.isEnabled THEN selections
             ELSE IF event.category # "critical" THEN <<>>
             ELSE IF w.sel = NoStrategy THEN selections
             ELSE Append(selections, w.sel)
        /\ lastRun' = NoRun
        /\ UNCHANGED <<lastKnownStatus, lastComputed,
                       handlerRegistered>>
        /\ UNCHANGED nonOrchVars

\* An event of any kind is emitted; max bounds the number of events.
Emit(max) ==
  \E event \in Events :
  \E fault \in FaultsOf(event), can \in AnswersOf(event) :
    /\ Len(emitted) < max
    /\ Deliver(event, fault, can)

EmitHealthEvent == Emit(MaxEvents)

EmitLadderEvent == Emit(MaxLadderEvents)

\* orchestrator.ts:254-259 and 278-283: what attemptRecovery and
\* attemptRecoveryWithUI do with a successful result. An exception (here of
\* updateErrorCount) is logged by their own catch, not counted.
recoverySucceeded(w, fault) ==
  LET w1 == [w EXCEPT !.st.consecutiveFailures = 0]
  IN  IF fault = "updateErrorCount" THEN w1
      ELSE [w1 EXCEPT !.st.status = "healthy"]

\* executeRecoveryWithUI(strategyId): the blocking dialog; the strategy is
\* executed, with consent, only when the user agrees (answer).
executeRecoveryWithUIRuns(strategyId, answer) ==
  answer /\ executeRecoveryRuns(strategyId, TRUE)

\* An awaited recovery settles: orchestrator.ts:252-266 and 276-290. success
\* is the outcome of the strategy when it ran.
RecoveryComplete ==
  \E a \in Attempts, answer \in BOOLEAN, success \in BOOLEAN,
     fault \in {"none", "updateErrorCount"} :
    LET prompted == a.fn = "attemptRecoveryWithUI"
        runs == IF prompted THEN executeRecoveryWithUIRuns(a.strategyId, answer)
                ELSE executeRecoveryRuns(a.strategyId, FALSE)
        w0 == [World EXCEPT !.recs[a] = @ - 1]
        w == IF runs /\ success THEN recoverySucceeded(w0, fault) ELSE w0
    IN  /\ recoveries[a] > 0
        /\ Commit(w)
        /\ lastRun' = IF runs THEN Run(a.strategyId, prompted) ELSE NoRun
        /\ UNCHANGED <<lastKnownStatus, lastComputed,
                       handlerRegistered, emitted, handled, selections>>
        /\ UNCHANGED nonOrchVars

\* orchestrator.ts:296-302, called by the health:trigger-recovery handler
\* (part_001:45-59). The promise of executeRecovery is handed to the
\* caller; nothing of the orchestrator awaits it.
triggerRecovery(strategyId, userConsented) ==
    /\ systemState.recoveryAttempts < MaxAttempts
    /\ systemState' = [systemState EXCEPT !.recoveryAttempts = @ + 1]
    /\ lastRun' = IF executeRecoveryRuns(strategyId, userConsented)
                    THEN Run(strategyId, userConsented) ELSE NoRun
    /\ lastReported' = NoStatusChange
    /\ UNCHANGED <<selfFailures, pollIntervalId,
                   healthChangeCallback, lastKnownStatus, lastComputed,
                   handlerRegistered, recoveries, emitted, handled, selections>>
    /\ UNCHANGED nonOrchVars

TriggerRecovery ==
  \E strategyId \in Strategies, userConsented \in BOOLEAN :
    triggerRecovery(strategyId, userConsented)

\* orchestrator.ts:307-313. The promise of executeRecoveryWithUI is handed
\* to the caller; answer is what the user replies to the dialog.
TriggerRecoveryWithUI ==
  \E strategyId \in Strategies, answer \in BOOLEAN :
    /\ systemState.recoveryAttempts < MaxAttempts
    /\ systemState' = [systemState EXCEPT !.recoveryAttempts = @ + 1]
    /\ lastRun' = IF executeRecoveryWithUIRuns(strategyId, answer)
                    THEN Run(strategyId, TRUE) ELSE NoRun
    /\ lastReported' = NoStatusChange
    /\ UNCHANGED <<selfFailures, pollIntervalId,
                   healthChangeCallback, lastKnownStatus, lastComputed,
                   handlerRegistered, recoveries, emitted, handled, selections>>
    /\ UNCHANGED nonOrchVars

\* runtime-checker.ts:156-162: the passive check calls the status callback
callbackInvoked(known, cb, newStatus) == newStatus # known /\ cb

\* runtime-checker.ts:155-171: the report of a passive poll. newStatus is
\* what steps 1-5 computed from the registry, the recent events, the error
\* count and the heap; a failing callback is caught at line 169, before
\* lastKnownStatus is assigned.
performFallbackCheck(w, known, newStatus, fault) ==
  IF callbackInvoked(known, w.cb, newStatus)
    THEN Caught(handleStatusChange(w, newStatus, fault))
    ELSE w

\* What a passive check reads: the orphan entries the registry counts, the
\* critical events of the last minute, the consecutive errors, and the heap
\* against MEMORY_WARNING_THRESHOLD_MB and MEMORY_CRITICAL_THRESHOLD_MB.
PollInputs ==
  [ orphanProcesses : {0, 1},
    recentCritical  : {0, 1},
    totalErrors     : {0, 1, 3},
    heap            : {"normal", "high", "critical"} ]

\* runtime-checker.ts:110-143: how many issues the passive check lists
fallbackIssues(in) ==
  (IF in.orphanProcesses > 0 THEN 1 ELSE 0)
    + (IF in.recentCritical > 0 THEN 1 ELSE 0)
    + (IF in.totalErrors > 0 THEN 1 ELSE 0)
    + (IF in.heap # "normal" THEN 1 ELSE 0)

\* runtime-checker.ts:148-153
fallbackStatus(in) ==
  IF in.recentCritical > 0 \/ in.totalErrors >= 3 \/ in.heap = "critical"
    THEN "unhealthy"
  ELSE IF fallbackIssues(in) > 0 THEN "degraded"
  ELSE "healthy"

\* runtime-checker.ts:145-171: what a passive check that computed newStatus
\* does with it
fallbackReport(newStatus, fault) ==
    LET w == performFallbackCheck(World, lastKnownStatus, newStatus, fault)
        threw == /\ callbackInvoked(lastKnownStatus, healthChangeCallback, newStatus)
                 /\ handleStatusChange(World, newStatus, fault).thrown
    IN  /\ pollIntervalId
        /\ Commit(w)
        /\ lastKnownStatus' = IF threw THEN lastKnownStatus ELSE newStatus
        /\ lastComputed' = newStatus
        /\ lastRun' = NoRun
        /\ UNCHANGED <<handlerRegistered, emitted, handled,
                       selections>>
        /\ UNCHANGED nonOrchVars

\* runtime-checker.ts:101-172: one passive check, on what it reads
fallbackPoll(in, fault) == fallbackReport(fallbackStatus(in), fault)

\* runtime-checker.ts:60-64, 101-172: the timer fires; the check computes
\* one of the statuses its inputs give
FallbackPoll ==
  \E newStatus \in {fallbackStatus(in) : in \in PollInputs},
     fault \in {"none", "sendToRenderer"} :
    fallbackReport(newStatus, fault)

\* orchestrator.ts:360-374
ShutdownHealthSystem ==
  /\ Commit(stopFallbackPolling(World))
  /\ marker' = shutdownMarker(marker)
  /\ shutDown' = TRUE
  /\ lastRun' = NoRun
  /\ UNCHANGED <<lastKnownStatus, lastComputed, handlerRegistered,
                 emitted, handled, selections>>
  /\ UNCHANGED <<prevShutDown, lastExitRead, ended>>
  /\ UNCHANGED nonOrchMarkerVars

\* the bootstrap of the host calls initInstanceId once, before anything else
Bootstrap ==
  /\ systemState.instanceId = ""
  /\ InitInstanceId

\* the host shuts the health system down when it quits, after its start
Quit ==
  /\ systemState.instanceId # ""
  /\ ShutdownHealthSystem

\* part_004:789-801: the startup checks, which run in the extended phase of
\* the start, after initInstanceId, read wasLastExitClean()
WasLastExitClean ==
  /\ systemState.instanceId # ""
  /\ lastExitRead' = IF wasLastExitClean(marker) THEN "clean" ELSE "crash"
  /\ UNCHANGED <<marker, shutDown, prevShutDown, ended>>
  /\ UNCHANGED <<orchVars, nonOrchMarkerVars>>

\* The host process ends, after a shutdown or without one, and is started
\* again: what it held in memory is lost, the marker file stays. A run
\* marks its start before anything else, so a run that ends has done so.
ProcessEnds ==
  /\ ended < MaxRuns
  /\ systemState.instanceId # ""
  /\ ended' = ended + 1
  /\ marker' = loadMarker(marker.file)
  /\ prevShutDown' = shutDown
  /\ shutDown' = FALSE
  /\ lastExitRead' = "none"
  /\ systemState' = InitialSystemState
  /\ selfFailures' = 0
  /\ pollIntervalId' = FALSE
  /\ healthChangeCallback' = FALSE
  /\ lastKnownStatus' = "healthy"
  /\ lastComputed' = "healthy"
  /\ lastReported' = NoStatusChange
  /\ handlerRegistered' = FALSE
  /\ recoveries' = [a \in Attempts |-> 0]
  /\ emitted' = <<>>
  /\ handled' = <<>>
  /\ lastRun' = NoRun
  /\ selections' = <<>>
  /\ UNCHANGED nonOrchMarkerVars

\* ------------------------------------------------------ process registry

\* The registry module (process-guardian) is not among the sources: its
\* operations are modelled from the specification, a store with at most one
\* entry per (id, type).

\* ids of managed children (conversation ids, tunnel ids)
Ids == {"c1", "c2"}

\* the ids registered where scans run
ScanIds == {"c1"}

\* ProcessEntry.type
ProcessTypes == {"v2-session", "tunnel"}

\* operating system process ids
Pids == {1234, 5678}

\* pid: pid ?? null (part_004:487): the SDK did not expose the child's pid
NoPid == 0

\* getCurrentInstanceId() of the running host
CurrentInstance == "i1"

\* the instance id of an earlier run of the host
OldInstance == "i0"

ProcessEntry(id, pid, type, instanceId) ==
  [id |-> id, pid |-> pid, type |-> type, instanceId |-> instanceId]

\* the (id, type) pairs
Keys == Ids \X ProcessTypes

KeyOf(entry) == <<entry.id, entry.type>>

\* no entry under a key
NoEntry == ProcessEntry("", NoPid, "", "")

\* registerProcess(entry): upsert under (id, type)
registerProcess(reg, entry) ==
  {e \in reg : KeyOf(e) # KeyOf(entry)} \cup {entry}

\* unregisterProcess(id, type): remove, a no-op when absent
unregisterProcess(reg, id, type) ==
  {e \in reg : KeyOf(e) # <<id, type>>}

\* getCurrentProcesses(): the entries of the current instance
getCurrentProcesses(reg) == {e \in reg : e.instanceId = CurrentInstance}

\* getOrphanProcesses(): the entries of earlier instances
getOrphanProcesses(reg) == {e \in reg : e.instanceId # CurrentInstance}

\* Faulty variant of registerSession: the entry is added without replacing
\* the one the conversation already has.
registerSessionKeepsOld(reg, conversationId, pid) ==
  reg \cup {ProcessEntry(conversationId, pid, "v2-session", CurrentInstance)}

\* part_004:482-492: getOrCreateV2Session registers the new session's child
registerSession(reg, conversationId, pid) ==
  registerProcess(reg, ProcessEntry(conversationId, pid, "v2-session", CurrentInstance))

\* part_004:638-651: closeV2Session unregisters it
closeV2Session(reg, conversationId) ==
  unregisterProcess(reg, conversationId, "v2-session")

\* ------------------------------------------------- the scan of a check

\* ChildProcessInfo.name of a child of the host; "none": no such child
ChildNames == {"claude", "cloudflared.exe", "node", "none"}

\* What checkOpenAIRouter / checkHttpServer can find: the service is not
\* running (routerInfo null, serverInfo.running false), the probe answers
\* healthy, answers unhealthy, or throws.
ServiceStates == {"absent", "responsive", "unresponsive", "throws"}

\* What one scan reads from its environment: whether findChildProcesses
\* throws, the name of the child behind each pid, the two services and
\* whether the heap is above MEMORY_WARNING_THRESHOLD_MB.
ScanInputs ==
  [ scanFails : BOOLEAN,
    children  : [Pids -> ChildNames],
    router    : ServiceStates,
    server    : ServiceStates,
    heapHigh  : BOOLEAN ]

\* runtime-checker.ts:226-246
claudeProcesses(in) ==
  IF in.scanFails THEN {}
  ELSE {p \in Pids : in.children[p] \in {"claude", "claude.exe"}}

cloudflaredProcesses(in) ==
  IF in.scanFails THEN {}
  ELSE {p \in Pids : in.children[p] \in {"cloudflared", "cloudflared.exe"}}

\* runtime-checker.ts:251-253
registeredOfType(reg, type) == {e \in getCurrentProcesses(reg) : e.type = type}

\* the child pids a scan compares the entries of a type with
processesOfType(in, type) ==
  IF type = "v2-session" THEN claudeProcesses(in) ELSE cloudflaredProcesses(in)

\* Faulty variant of isDeadEntry: the negation is lost, so the entries
\* whose process the scan saw are the ones found dead.
isDeadEntryInverted(entry, pids) == entry.pid # NoPid /\ entry.pid \in pids

\* runtime-checker.ts:261 and 269: the entry has a pid and the scan did not
\* see it
isDeadEntry(entry, pids) == entry.pid # NoPid /\ entry.pid \notin pids

\* runtime-checker.ts:260-275: the entries found dead
deadEntries(reg, in) ==
  {e \in getCurrentProcesses(reg) :
     isDeadEntry(e, processesOfType(in, e.type))}

RECURSIVE unregisterAll(_, _)
\* runtime-checker.ts:264 and 272, once per dead entry
unregisterAll(reg, dead) ==
  IF dead = {} THEN reg
  ELSE LET e == CHOOSE x \in dead : TRUE
       IN  unregisterAll(unregisterProcess(reg, e.id, e.type), dead \ {e})

\* runtime-checker.ts:279-294: children of a scanned name whose pid no
\* entry of that type records
orphansFound(reg, in) ==
  LET pidsOf(type) == {e.pid : e \in registeredOfType(reg, type)} \ {NoPid}
  IN  Cardinality(claudeProcesses(in) \ pidsOf("v2-session"))
        + Cardinality(cloudflaredProcesses(in) \ pidsOf("tunnel"))

\* issues.push when cond
PushIf(issues, cond, issue) == IF cond THEN Append(issues, issue) ELSE issues

\* runtime-checker.ts:243-246, 296-302, 316-356, 369-372: the issue list in
\* the order the scan pushes
issuesOf(in, removed, orphans) ==
  LET i1 == PushIf(<<>>, in.scanFails, "PPID scan failed")
      i2 == PushIf(i1, removed > 0, "Cleaned dead process entries")
      i3 == PushIf(i2, orphans > 0, "orphan processes detected")
      i4 == PushIf(i3, in.router = "unresponsive", "OpenAI Router not responding")
      i5 == PushIf(i4, in.router = "throws", "OpenAI Router check failed")
      i6 == PushIf(i5, in.server = "unresponsive", "HTTP Server not responding")
      i7 == PushIf(i6, in.server = "throws", "HTTP Server check failed")
  IN  PushIf(i7, in.heapHigh, "High memory usage")

\* runtime-checker.ts:393-394
hasServiceIssues(in) ==
  \/ in.router # "absent" /\ in.router # "responsive"
  \/ in.server # "absent" /\ in.server # "responsive"

\* Faulty variant of isHealthy: any issue, the cleanup included, makes the
\* snapshot unhealthy.
isHealthyWithoutIssues(issues, removed, serviceIssues) == Len(issues) = 0

\* runtime-checker.ts:396
isHealthy(issues, removed, serviceIssues) ==
  Len(issues) = 0 \/ (removed > 0 /\ Len(issues) = 1 /\ ~serviceIssues)

\* runtime-checker.ts:213-414: the scan of doImmediateCheck, from what it
\* reads to the registry it leaves and the result it returns
scan(reg, in) ==
  LET dead == deadEntries(reg, in)
      removed == Cardinality(dead)
      orphans == orphansFound(reg, in)
      issues == issuesOf(in, removed, orphans)
  IN  [ input    |-> in,
        before   |-> reg,
        after    |-> unregisterAll(reg, dead),
        removed  |-> removed,
        orphans  |-> orphans,
        issues   |-> issues,
        healthy  |-> isHealthy(issues, removed, hasServiceIssues(in)) ]

\* no scan has reported since the registry last changed
NoReport == [removed |-> -1]

\* the registry records a new session (part_004:482-492) or tunnel, its
\* id among ids
RegisterIn(ids) ==
  \E id \in ids, pid \in Pids \cup {NoPid}, type \in ProcessTypes :
    LET entry == ProcessEntry(id, pid, type, CurrentInstance)
    IN  /\ registry' = IF type = "v2-session" THEN registerSession(registry, id, pid)
                       ELSE registerProcess(registry, entry)
        /\ live' = [live EXCEPT ![<<id, type>>] = entry]
        /\ report' = NoReport
        /\ UNCHANGED nonRegistryVars

\* a session (part_004:638-651) or tunnel is closed
UnregisterIn(ids) ==
  \E id \in ids, type \in ProcessTypes :
    /\ registry' = IF type = "v2-session" THEN closeV2Session(registry, id)
                   ELSE unregisterProcess(registry, id, type)
    /\ live' = [live EXCEPT ![<<id, type>>] = NoEntry]
    /\ report' = NoReport
    /\ UNCHANGED nonRegistryVars

RegisterProcess == RegisterIn(Ids)

UnregisterProcess == UnregisterIn(Ids)

RegisterScanned == RegisterIn(ScanIds)

UnregisterScanned == UnregisterIn(ScanIds)

\* runtime-checker.ts:208-418: a scan runs and returns its result. Scans
\* are single-flight: the next one runs once the result of the last was
\* taken.
Scan ==
  \E in \in ScanInputs :
    LET r == scan(registry, in)
    IN  /\ report = NoReport
        /\ registry' = r.after
        /\ live' = [k \in Keys |->
                      IF live[k] \in deadEntries(registry, in) THEN NoEntry
                      ELSE live[k]]
        /\ report' = r
        /\ UNCHANGED nonRegistryVars

\* ----------------------------------------------------------- the sessions

\* A V2 session: the n-th child process the SDK spawned, for a
\* conversation, with the pid the session exposes (NoPid: unavailable).
Session(n, conversationId, pid) ==
  [n |-> n, conversationId |-> conversationId, pid |-> pid]

\* v2Sessions has no entry for the conversation
NoSession == Session(0, "", NoPid)

\* the pid of the n-th child the SDK spawns
ChildPid(n) == 2000 + n

\* the session maps and the registry, as one handler sees and leaves them
SessionWorld ==
  [ v2      |-> v2Sessions,
    active  |-> activeSessions,
    pending |-> pendingInvalidations,
    reg     |-> registry,
    run     |-> spawned ]

\* a handler returns: what it left becomes the state
CommitSessions(w) ==
  /\ v2Sessions' = w.v2
  /\ activeSessions' = w.active
  /\ pendingInvalidations' = w.pending
  /\ registry' = w.reg
  /\ spawned' = w.run
  /\ live' = [k \in Keys |->
                IF k[2] = "v2-session"
                THEN IF \E e \in getCurrentProcesses(w.reg) : KeyOf(e) = k
                     THEN CHOOSE e \in getCurrentProcesses(w.reg) : KeyOf(e) = k
                     ELSE NoEntry
                ELSE live[k]]
  /\ report' = NoReport

\* part_004:389-402 and 638-651: closeV2SessionForRebuild and
\* closeV2Session: session.close(), unregisterProcess, v2Sessions.delete
closeSession(w, conversationId) ==
  IF w.v2[conversationId] = NoSession THEN w
  ELSE [w EXCEPT !.run = @ \ {w.v2[conversationId]},
                 !.reg = closeV2Session(@, conversationId),
                 !.v2[conversationId] = NoSession]

\* part_004:478-505: what follows the await of unstable_v2_createSession:
\* registerProcess and v2Sessions.set for the session it resolved to
storeSession(w, s) ==
  [w EXCEPT !.run = @ \cup {s},
            !.reg = registerSession(@, s.conversationId, s.pid),
            !.v2[s.conversationId] = s]

\* part_004:680-714
invalidateAllSessions(w) ==
  LET held == {c \in Ids : w.v2[c] # NoSession}
      deferred == held \cap w.active
      closedNow == held \ w.active
  IN  [w EXCEPT !.pending = @ \cup deferred,
                !.run = @ \ {w.v2[c] : c \in closedNow},
                !.reg = {e \in @ : ~(e.type = "v2-session" /\ e.id \in closedNow)},
                !.v2 = [c \in Ids |-> IF c \in w.active THEN w.v2[c] ELSE NoSession]]

\* part_004:740-741
registerActiveSession(w, conversationId) ==
  [w EXCEPT !.active = @ \cup {conversationId}]

\* part_004:747-753
unregisterActiveSession(w, conversationId) ==
  LET idle == [w EXCEPT !.active = @ \ {conversationId}]
  IN  IF conversationId \in w.pending
      THEN closeSession([idle EXCEPT !.pending = @ \ {conversationId}],
                        conversationId)
      ELSE idle

\* calls of getOrCreateV2Session awaiting unstable_v2_createSession
InFlight == creating["c1"] + creating["c2"]

\* part_004:424-476: getOrCreateV2Session up to the await. rebuild:
\* config && needsSessionRebuild(existing, config). A call that reuses the
\* session it finds returns it and changes nothing.
GetOrCreateV2Session(conversationId, rebuild) ==
  LET existing == v2Sessions[conversationId]
  IN  /\ created + InFlight < MaxSessions
      /\ existing # NoSession => rebuild
      /\ CommitSessions(IF existing # NoSession
                        THEN closeSession(SessionWorld, conversationId)
                        ELSE SessionWorld)
      /\ creating' = [creating EXCEPT ![conversationId] = @ + 1]
      /\ UNCHANGED <<created, owed>>
      /\ UNCHANGED nonSessionVars

\* part_004:476-507: unstable_v2_createSession resolves and the call runs
\* to its return
CreateSessionResolves(conversationId, pidExposed) ==
  LET n == created + 1
      s == Session(n, conversationId, IF pidExposed THEN ChildPid(n) ELSE NoPid)
  IN  /\ creating[conversationId] > 0
      /\ CommitSessions(storeSession(SessionWorld, s))
      /\ creating' = [creating EXCEPT ![conversationId] = @ - 1]
      /\ created' = n
      /\ UNCHANGED owed
      /\ UNCHANGED nonSessionVars

\* unstable_v2_createSession rejects: the call throws before it registers
CreateSessionRejects(conversationId) ==
  /\ creating[conversationId] > 0
  /\ creating' = [creating EXCEPT ![conversationId] = @ - 1]
  /\ UNCHANGED <<v2Sessions, activeSessions, pendingInvalidations, spawned,
                 created, owed>>
  /\ UNCHANGED registryVars
  /\ UNCHANGED nonSessionVars

\* a request starts for a conversation
RegisterActiveSession(conversationId) ==
  /\ conversationId \notin activeSessions
  /\ CommitSessions(registerActiveSession(SessionWorld, conversationId))
  /\ UNCHANGED <<creating, created, owed>>
  /\ UNCHANGED nonSessionVars

\* the request of a conversation ends
UnregisterActiveSession(conversationId) ==
  /\ conversationId \in activeSessions
  /\ CommitSessions(unregisterActiveSession(SessionWorld, conversationId))
  /\ UNCHANGED <<creating, created, owed>>
  /\ UNCHANGED nonSessionVars

\* part_004:769-771: the configuration service reports a changed API
\* configuration
InvalidateAllSessions ==
  /\ CommitSessions(invalidateAllSessions(SessionWorld))
  /\ owed' = owed \cup ({v2Sessions[c] : c \in Ids} \ {NoSession})
  /\ UNCHANGED <<creating, created>>
  /\ UNCHANGED nonSessionVars

\* a conversation's session is closed from outside (closeV2Session)
CloseV2Session(conversationId) ==
  /\ v2Sessions[conversationId] # NoSession
  /\ CommitSessions(closeSession(SessionWorld, conversationId))
  /\ UNCHANGED <<creating, created, owed>>
  /\ UNCHANGED nonSessionVars

\* ----------------------------------------------------------- the probes

\* part_004:807-812
ProbeNames == {"config", "port", "disk", "process"}

Severities == {"info", "warning", "critical"}

\* a probe, or the startup checks, not started; started and not settled
Idle == [kind |-> "idle"]

Pending == [kind |-> "pending"]

\* A ProbeResult {name, healthy, severity}. how is not a field of the code:
\* it records what the probe went through: "returned" (a finding),
\* "internal fault" (an unexpected exception it caught itself), "rejected"
\* (it threw) or "timeout" (it had not settled when the timer fired).
ProbeResult(name, healthy, severity, how) ==
  [kind |-> "result", name |-> name, healthy |-> healthy,
   severity |-> severity, how |-> how]

\* the promise of a probe rejects
Rejected == [kind |-> "rejected", how |-> "rejected"]

\* the promise of a probe is still pending when the timer of withTimeout
\* fires
TimedOut == [kind |-> "timeout", how |-> "timeout"]

\* What runConfigProbe meets: getConfigPath() throws, the file exists, it
\* holds JSON, an unexpected exception inside the try block (the file
\* parses to null, say), and the fields found.
ConfigInputs ==
  [ pathThrows          : BOOLEAN,
    fileExists          : BOOLEAN,
    jsonValid           : BOOLEAN,
    fault               : BOOLEAN,
    hasAiSourcesCurrent : BOOLEAN,
    hasPermissions      : BOOLEAN,
    apiKeyConfigured    : BOOLEAN ]

\* config-probe.ts:18-161
runConfigProbe(in) ==
  IF in.pathThrows THEN Rejected
  ELSE IF ~in.fileExists THEN ProbeResult("config", FALSE, "info", "returned")
  ELSE IF ~in.jsonValid THEN ProbeResult("config", FALSE, "critical", "returned")
  ELSE IF in.fault THEN ProbeResult("config", FALSE, "critical", "internal fault")
  ELSE LET healthy == in.hasAiSourcesCurrent /\ in.hasPermissions
           severity == IF ~healthy THEN "critical"
                       ELSE IF ~in.apiKeyConfigured THEN "warning"
                       ELSE "info"
       IN  ProbeResult("config", healthy, severity, "returned")

\* The port, disk and process probes are not among the sources. From the
\* specification: a probe returns any finding, and on an internal fault a
\* healthy warning; here it may also throw.
runOtherProbe(name) ==
  {ProbeResult(name, healthy, severity, "returned") :
     healthy \in BOOLEAN, severity \in Severities}
    \cup {ProbeResult(name, TRUE, "warning", "internal fault"), Rejected}

\* what the promise of probeFn() can do before the timer fires
OutcomesOf(name) ==
  (IF name = "config" THEN {runConfigProbe(in) : in \in ConfigInputs}
   ELSE runOtherProbe(name)) \cup {TimedOut}

\* Faulty variant of safeProbe: the timeout is not caught.
safeProbeRethrowsTimeout(name, outcome) ==
  IF outcome.kind = "result" THEN outcome
  ELSE IF outcome.kind = "timeout" THEN Rejected
  ELSE ProbeResult(name, TRUE, "warning", "rejected")

\* part_004:851-887: safeProbe with withTimeout; a rejection of either kind
\* becomes a healthy warning
safeProbe(name, outcome) ==
  IF outcome.kind = "result" THEN outcome
  ELSE ProbeResult(name, TRUE, "warning", outcome.how)

\* part_004:893-906
determineOverallStatus(results) ==
  IF \E r \in results : ~r.healthy /\ r.severity = "critical" THEN "unhealthy"
  ELSE IF \E r \in results : ~r.healthy /\ r.severity = "warning" THEN "degraded"
  ELSE "healthy"

\* StartupCheckResult {status, probes}
StartupCheckResult(status, results) ==
  [kind |-> "result", status |-> status, probes |-> results]

\* part_004:793-812: runStartupChecks starts the four probes
RunStartupChecks ==
  /\ startup.kind # "pending"
  /\ startup' = Pending
  /\ probeState' = [name \in ProbeNames |-> Pending]
  /\ timeouts' = {}
  /\ UNCHANGED nonProbeVars

\* part_004:851-867: one safeProbe settles
ProbeSettles ==
  \E name \in ProbeNames :
  \E outcome \in OutcomesOf(name) :
    /\ startup.kind = "pending"
    /\ probeState[name].kind = "pending"
    /\ probeState' = [probeState EXCEPT ![name] = safeProbe(name, outcome)]
    /\ timeouts' = IF outcome.kind = "timeout" THEN timeouts \cup {name}
                                               ELSE timeouts
    /\ UNCHANGED startup
    /\ UNCHANGED nonProbeVars

\* part_004:806-845: Promise.all settles and runStartupChecks returns: with
\* the four results (814-833), or from its catch, with what probes holds
\* then, when a safeProbe rejected (834-843)
StartupChecksReturn ==
  LET rejected == \E name \in ProbeNames : probeState[name].kind = "rejected"
      settled == \A name \in ProbeNames : probeState[name].kind = "result"
      results == <<probeState["config"], probeState["port"],
                   probeState["disk"], probeState["process"]>>
  IN  /\ startup.kind = "pending"
      /\ rejected \/ settled
      /\ startup' =
           IF rejected THEN StartupCheckResult("healthy", <<>>)
           ELSE StartupCheckResult(
                  determineOverallStatus({results[i] : i \in 1..4}), results)
      /\ UNCHANGED <<probeState, timeouts>>
      /\ UNCHANGED nonProbeVars

\* ------------------------------------------------ the configuration file

\* aiSources.version: 0 when the file has no aiSources, 1 for the legacy
\* format, 2 for the format with a sources array
Versions == {0, 1, 2}

\* aiSources.current (legacy) or aiSources.currentId (version 2): absent,
\* null, 'custom', or the id of a provider or source
Currents == {"absent", "null", "custom", "github"}

\* authType of the source the selector names; "none" when there is no such
\* source
AuthTypes == {"none", "api-key", "oauth"}

\* The configuration file: missing, not JSON, or a JSON object with its
\* aiSources selector, whether permissions is an object, and the apiKey
\* and accessToken of the source or provider the selector names.
ConfigFile(file, version, current, permissions, authType, apiKey, accessToken) ==
  [file |-> file, version |-> version, current |-> current,
   permissions |-> permissions, authType |-> authType,
   apiKey |-> apiKey, accessToken |-> accessToken]

MissingFile == ConfigFile("missing", 0, "absent", FALSE, "none", "absent", "absent")

CorruptFile == ConfigFile("invalid", 0, "absent", FALSE, "none", "absent", "absent")

ConfigFiles ==
  {MissingFile, CorruptFile}
    \cup {ConfigFile("json", version, current, permissions, authType, apiKey, accessToken) :
            version \in Versions, current \in Currents, permissions \in BOOLEAN,
            authType \in AuthTypes, apiKey \in {"absent", "", "sk-1"},
            accessToken \in {"absent", "tok-1"}}

\* config-probe.ts:77-80
hasAiSourcesCurrent(cfg) ==
  IF cfg.version = 2 THEN cfg.current # "absent"
  ELSE cfg.version = 1 /\ cfg.current \in {"custom", "github"}

\* Faulty variant of apiKeyConfigured: an empty apiKey counts as a key.
apiKeyConfiguredAcceptsEmpty(cfg) ==
  IF cfg.version = 2
    THEN /\ cfg.current \in {"custom", "github"}
         /\ \/ cfg.authType = "api-key" /\ cfg.apiKey # "absent"
            \/ cfg.authType = "oauth" /\ cfg.accessToken # "absent"
  ELSE /\ cfg.version = 1
       /\ \/ cfg.current = "custom" /\ cfg.apiKey # "absent"
          \/ cfg.current = "github" /\ cfg.accessToken # "absent"

\* config-probe.ts:91-117
apiKeyConfigured(cfg) ==
  IF cfg.version = 2
    THEN /\ cfg.current \in {"custom", "github"}
         /\ \/ cfg.authType = "api-key" /\ cfg.apiKey \notin {"absent", ""}
            \/ cfg.authType = "oauth" /\ cfg.accessToken # "absent"
  ELSE /\ cfg.version = 1
       /\ \/ cfg.current = "custom" /\ cfg.apiKey \notin {"absent", ""}
          \/ cfg.current = "github" /\ cfg.accessToken # "absent"

\* config-probe.ts:19-89: what runConfigProbe finds in the file
configInput(cfg, pathThrows, fault) ==
  [ pathThrows          |-> pathThrows,
    fileExists          |-> cfg.file # "missing",
    jsonValid           |-> cfg.file = "json",
    fault               |-> fault,
    hasAiSourcesCurrent |-> hasAiSourcesCurrent(cfg),
    hasPermissions      |-> cfg.permissions,
    apiKeyConfigured    |-> apiKeyConfigured(cfg) ]

\* the configuration file is written, by the host or by hand
WriteConfigFile ==
  /\ \E cfg \in ConfigFiles :
       /\ cfg # configFile
       /\ configFile' = cfg
  /\ configResult' = Idle
  /\ UNCHANGED nonConfigVars

\* config-probe.ts:18-161: a call of runConfigProbe
RunConfigProbe ==
  /\ \E pathThrows \in BOOLEAN, fault \in BOOLEAN :
       configResult' = runConfigProbe(configInput(configFile, pathThrows, fault))
  /\ UNCHANGED configFile
  /\ UNCHANGED nonConfigVars

\* ------------------------------------------------ configuration service

MaxSaves == 2

Providers == {"anthropic", "openai"}

ApiUrls == {"u1", "u2"}

ApiKeys == {"k1", "k2"}

Models == {"m1", "m2"}

\* the subscribers of onApiConfigChange
Handlers == {"h1", "h2"}

\* part_002:211-216, 370-375: a provider, its endpoint, its key and the model
Source(provider, apiUrl, apiKey, model) ==
  [provider |-> provider, apiUrl |-> apiUrl, apiKey |-> apiKey, model |-> model]

\* the field is undefined
NoSource == Source("", "", "", "")

Sources ==
  {Source(provider, apiUrl, apiKey, model) :
     provider \in Providers, apiUrl \in ApiUrls, apiKey \in ApiKeys, model \in Models}

\* an OAuth provider entry of the legacy format (aiSources[current])
OAuthSource(accessToken, model) == [accessToken |-> accessToken, model |-> model]

NoOAuthSource == OAuthSource("", "")

\* AISourcesConfig. Legacy format: current names "custom" (the custom field)
\* or an OAuth provider (here github). Version 2 (part_000:48-52, 112-116):
\* version 2, currentId and sources, of which the model keeps the current one;
\* it has no current and no custom field.
AiSources(version, current, custom, github, currentId, source) ==
  [ version |-> version, current |-> current, custom |-> custom,
    github |-> github, currentId |-> currentId, source |-> source ]

LegacyCustom(custom) == AiSources(1, "custom", custom, NoOAuthSource, "", NoSource)

LegacyOAuth(github) == AiSources(1, "github", NoSource, github, "", NoSource)

VersionTwo(source) == AiSources(2, "", NoSource, NoOAuthSource, "s1", source)

AiSourcesConfigs ==
  {LegacyCustom(custom) : custom \in Sources}
    \cup {LegacyOAuth(OAuthSource(t, m)) : t \in ApiKeys, m \in Models}
    \cup {VersionTwo(source) : source \in Sources}

\* HaloConfig, of which api and aiSources are kept
HaloConfig(api, aiSources) == [api |-> api, aiSources |-> aiSources]

\* part_002:318-349
DEFAULT_CONFIG ==
  HaloConfig(Source("anthropic", "u1", "", "m1"), LegacyCustom(NoSource))

\* part_002:351-361: an aiSources object of the file is used as it is,
\* with current defaulted to custom
normalizeAiSources(raw) ==
  IF raw.current = "" THEN [raw EXCEPT !.current = "custom"] ELSE raw

\* part_002:442-470
getConfig(file) == HaloConfig(file.api, normalizeAiSources(file.aiSources))

\* Faulty variant of getAiSourcesSignature: the model is part of the
\* signature.
getAiSourcesSignatureWithModel(aiSources) ==
  LET current == IF aiSources.current = "" THEN "custom" ELSE aiSources.current
  IN  IF current = "custom"
        THEN <<"custom", aiSources.custom.provider, aiSources.custom.apiUrl,
               aiSources.custom.apiKey, aiSources.custom.model>>
        ELSE IF aiSources.github # NoOAuthSource
          THEN <<"oauth", current, aiSources.github.accessToken,
                 aiSources.github.model>>
          ELSE <<current>>

\* part_002:381-411. The fields joined by '|' are kept as a tuple: no value
\* of the model holds a '|'. refreshToken and tokenExpires are left out of
\* OAuthSource and of the tuple. It reads current and custom only, which a
\* version-2 object does not have.
getAiSourcesSignature(aiSources) ==
  LET current == IF aiSources.current = "" THEN "custom" ELSE aiSources.current
  IN  IF current = "custom"
        THEN <<"custom", aiSources.custom.provider, aiSources.custom.apiUrl,
               aiSources.custom.apiKey>>
        ELSE IF aiSources.github # NoOAuthSource
          THEN <<"oauth", current, aiSources.github.accessToken>>
          ELSE <<current>>

\* The argument of saveConfig: the api object, the aiSources object, or
\* neither (a save of other settings, as setAutoLaunch makes it).
Partial(hasApi, api, hasAiSources, aiSources) ==
  [ hasApi |-> hasApi, api |-> api,
    hasAiSources |-> hasAiSources, aiSources |-> aiSources ]

PartialConfigs ==
  {Partial(TRUE, api, FALSE, LegacyCustom(NoSource)) : api \in Sources}
    \cup {Partial(FALSE, NoSource, TRUE, aiSources) : aiSources \in AiSourcesConfigs}
    \cup {Partial(FALSE, NoSource, FALSE, LegacyCustom(NoSource))}

\* part_002:476-511: the configuration written to the file
mergeConfig(currentConfig, config) ==
  HaloConfig(IF config.hasApi THEN config.api ELSE currentConfig.api,
             IF config.hasAiSources THEN config.aiSources
             ELSE currentConfig.aiSources)

\* part_002:518-522
apiChanged(currentConfig, config) ==
  /\ config.hasApi
  /\ \/ config.api.provider # currentConfig.api.provider
     \/ config.api.apiKey # currentConfig.api.apiKey
     \/ config.api.apiUrl # currentConfig.api.apiUrl

\* part_002:514-524: whether saveConfig sets the timer that notifies
notifies(currentConfig, config, handlers) ==
  LET newConfig == mergeConfig(currentConfig, config)
      aiSourcesChanged ==
        getAiSourcesSignature(currentConfig.aiSources)
          # getAiSourcesSignature(newConfig.aiSources)
  IN  /\ config.hasApi \/ config.hasAiSources
      /\ apiChanged(currentConfig, config) \/ aiSourcesChanged
      /\ Len(handlers) > 0

\* the source requests are sent to: the current source of a version-2
\* object, the custom source or the OAuth provider of a legacy one
activeSource(aiSources) ==
  IF aiSources.version = 2 THEN aiSources.source
  ELSE IF aiSources.current = "custom" THEN aiSources.custom
  ELSE Source(aiSources.current, "", aiSources.github.accessToken,
              aiSources.github.model)

\* provider, API key and API URL of the active source
activeCredentials(cfg) ==
  LET src == activeSource(cfg.aiSources)
  IN  <<src.provider, src.apiKey, src.apiUrl>>

\* cfg with every model field blanked
withoutModels(cfg) ==
  HaloConfig([cfg.api EXCEPT !.model = ""],
             [cfg.aiSources EXCEPT !.custom.model = "", !.github.model = "",
                                   !.source.model = ""])

\* what a save did: the format it wrote, whether it changed the credentials
\* of the active source, whether it changed a model and nothing else, whether
\* a subscriber was registered and whether the timer was set
Save(version, credentialsChanged, onlyModel, subscribed, scheduled) ==
  [ version |-> version, credentialsChanged |-> credentialsChanged,
    onlyModel |-> onlyModel, subscribed |-> subscribed,
    scheduled |-> scheduled ]

NoSave == Save(0, FALSE, FALSE, FALSE, FALSE)

NoNotify == [h \in Handlers |-> 0]

\* part_002:475-541
SaveConfig ==
  /\ saves < MaxSaves
  /\ \E config \in PartialConfigs :
       LET currentConfig == getConfig(diskConfig)
           newConfig == mergeConfig(currentConfig, config)
           scheduled == notifies(currentConfig, config, apiConfigChangeHandlers)
       IN  /\ diskConfig' = newConfig
           /\ pendingNotify' = IF scheduled THEN pendingNotify + 1 ELSE pendingNotify
           /\ lastSave' =
                Save(newConfig.aiSources.version,
                     activeCredentials(getConfig(newConfig))
                       # activeCredentials(currentConfig),
                     /\ getConfig(newConfig) # currentConfig
                     /\ withoutModels(getConfig(newConfig))
                          = withoutModels(currentConfig),
                     Len(apiConfigChangeHandlers) > 0,
                     scheduled)
  /\ saves' = saves + 1
  /\ UNCHANGED <<apiConfigChangeHandlers, lastNotify>>
  /\ UNCHANGED nonSaveVars

\* part_002:201-207: a subscriber registers; each does so once (part_004:769,
\* at module load)
OnApiConfigChange ==
  /\ \E h \in Handlers :
       /\ \A i \in 1..Len(apiConfigChangeHandlers) : apiConfigChangeHandlers[i] # h
       /\ apiConfigChangeHandlers' = Append(apiConfigChangeHandlers, h)
  /\ UNCHANGED <<diskConfig, pendingNotify, saves, lastSave, lastNotify>>
  /\ UNCHANGED nonSaveVars

\* part_002:203-206: the unsubscribe function onApiConfigChange returned
Unsubscribe ==
  /\ \E i \in 1..Len(apiConfigChangeHandlers) :
       apiConfigChangeHandlers' =
         SubSeq(apiConfigChangeHandlers, 1, i - 1)
           \o SubSeq(apiConfigChangeHandlers, i + 1, Len(apiConfigChangeHandlers))
  /\ UNCHANGED <<diskConfig, pendingNotify, saves, lastSave, lastNotify>>
  /\ UNCHANGED nonSaveVars

\* part_002:528-536: the timer callback calls every handler of the array
NotifyTimer ==
  /\ pendingNotify > 0
  /\ pendingNotify' = pendingNotify - 1
  /\ lastNotify' =
       [h \in Handlers |->
          Cardinality({i \in 1..Len(apiConfigChangeHandlers) :
                         apiConfigChangeHandlers[i] = h})]
  /\ UNCHANGED <<diskConfig, apiConfigChangeHandlers, saves, lastSave>>
  /\ UNCHANGED nonSaveVars

\* ------------------------------------------------ platform operations

\* who started a process: a prior instance of the host, the current one,
\* or neither of them
Owners == {"old", "current", "other"}

\* A process of the operating system: who started it, whether its command
\* line carries halo-managed with halo-instance=<the instance that started
\* it>, and whether the host's user is denied access to it.
Process(owner, flagged, denied) ==
  [owner |-> owner, flagged |-> flagged, denied |-> denied]

\* no process has the pid
NoProcess == Process("", FALSE, FALSE)

Processes ==
  {Process(owner, flagged, FALSE) : owner \in {"old", "current"}, flagged \in BOOLEAN}
    \cup {Process("other", FALSE, denied) : denied \in BOOLEAN}

\* collector.ts:345: the instance id in the command line of a flagged process
instanceOf(proc) == IF proc.owner = "old" THEN OldInstance ELSE CurrentInstance

Signals == {"SIGTERM", "SIGKILL"}

\* What a process does with a termination request: it exits, it takes the
\* request and keeps running, or the request is refused.
Responses == {"exits", "lingers", "resists"}

\* collector.ts:203-211: process.kill(pid, 0) raises when there is no such
\* process and when access to it is denied; both give false
isProcessAlive(table, pid) ==
  /\ table[pid] # NoProcess
  /\ ~table[pid].denied

\* collector.ts:183-184: taskkill [/F] /PID pid /T, whether it exited with
\* status 0 and the process table it leaves
taskkill(table, pid, signal, response) ==
  IF table[pid] = NoProcess \/ table[pid].denied
    THEN [ok |-> FALSE, table |-> table]
  ELSE IF signal = "SIGKILL" \/ response = "exits"
    THEN [ok |-> TRUE, table |-> [table EXCEPT ![pid] = NoProcess]]
  ELSE IF response = "lingers"
    THEN [ok |-> TRUE, table |-> table]
  ELSE [ok |-> FALSE, table |-> table]

\* collector.ts:179-197: only a failed taskkill is followed by isProcessAlive
killProcess(table, pid, signal, response) ==
  LET t == taskkill(table, pid, signal, response)
  IN  [threw |-> ~t.ok /\ isProcessAlive(t.table, pid), table |-> t.table]

\* collector.ts:134-172: the pids whose command line holds the pattern; a
\* failed query is caught and gives no process
findByArgs(table, scanFails) ==
  IF scanFails THEN {}
  ELSE {pid \in Pids : table[pid] # NoProcess /\ table[pid].flagged}

\* ------------------------------------------------- process enumeration

\* How the PowerShell command of an enumeration ends: it prints its result,
\* it prints something that is not JSON, it is killed at the 10000 ms
\* timeout, or it exits with an error.
ExecOutcomes == {"output", "garbled", "timeout", "failed"}

\* What the command prints (ConvertTo-Json -Compress): nothing for no
\* process, an object for one, an array for several.
Stdout(kind, pids) == [kind |-> kind, pids |-> pids]

convertToJson(matches) ==
  IF matches = {} THEN Stdout("empty", {})
  ELSE IF Cardinality(matches) = 1 THEN Stdout("object", matches)
  ELSE Stdout("array", matches)

\* collector.ts:142 and 223: execAsync(psCommand, {timeout: 10000}) rejects
\* when the command is killed or fails
execAsync(matches, outcome) ==
  [ rejected |-> outcome \in {"timeout", "failed"},
    stdout   |-> IF outcome = "output" THEN convertToJson(matches)
                 ELSE IF outcome = "garbled" THEN Stdout("garbled", {})
                 ELSE Stdout("empty", {}) ]

\* collector.ts:149-162 and 230-243: JSON.parse raises on text that is not
\* JSON; a single object is wrapped; records without a ProcessId are dropped
parseProcesses(stdout) ==
  [ thrown |-> stdout.kind = "garbled",
    list   |-> IF stdout.kind \in {"object", "array"}
                 THEN {pid \in stdout.pids : pid # 0}
                 ELSE {} ]

\* what an enumeration hands to its caller: a list, or an exception
Listed(list) == [raised |-> FALSE, list |-> list]

Raised == [raised |-> TRUE, list |-> {}]

\* Faulty variant of queryProcesses: the catch lets a timeout through.
queryProcessesRethrowsTimeout(matches, outcome) ==
  LET x == execAsync(matches, outcome)
      parsed == parseProcesses(x.stdout)
  IN  IF outcome = "timeout" THEN Raised
      ELSE IF x.rejected THEN Listed({})
      ELSE IF x.stdout.kind = "empty" THEN Listed({})
      ELSE IF parsed.thrown THEN Listed({})
      ELSE Listed(parsed.list)

\* collector.ts:135-172 and 217-254, the body the two enumerations share.
\* Whatever is raised inside the try is caught; the catch returns [] or
\* falls through to return results, to which nothing has been pushed.
queryProcesses(matches, outcome) ==
  LET x == execAsync(matches, outcome)
      parsed == parseProcesses(x.stdout)
  IN  IF x.rejected THEN Listed({})
      ELSE IF x.stdout.kind = "empty" THEN Listed({})
      ELSE IF parsed.thrown THEN Listed({})
      ELSE Listed(parsed.list)

\* collector.ts:140: the processes whose command line holds the pattern
matchingArgs(table) ==
  {pid \in Pids : table[pid] # NoProcess /\ table[pid].flagged}

\* collector.ts:221: the processes whose ParentProcessId is the host's pid
childrenOfHost(table) ==
  {pid \in Pids : table[pid] # NoProcess /\ table[pid].owner = "current"}

\* collector.ts:216-254
findChildProcesses(table, outcome) == queryProcesses(childrenOfHost(table), outcome)

\* an enumeration: the operation, the processes that matched, how the
\* command ended and what the caller got
Query(op, matches, outcome, result) ==
  [op |-> op, matches |-> matches, outcome |-> outcome, result |-> result]

NoQuery == Query("none", {}, "output", Listed({}))

\* collector.ts:134-172: a call of findByArgs(HALO_MANAGED_FLAG)
FindByArgs ==
  /\ \E outcome \in ExecOutcomes :
       lastQuery' = Query("findByArgs", matchingArgs(procs), outcome,
                          queryProcesses(matchingArgs(procs), outcome))
  /\ UNCHANGED nonQueryVars

\* collector.ts:216-254: a call of findChildProcesses(process.pid)
FindChildProcesses ==
  /\ \E outcome \in ExecOutcomes :
       lastQuery' = Query("findChildProcesses", childrenOfHost(procs), outcome,
                          findChildProcesses(procs, outcome))
  /\ UNCHANGED nonQueryVars

\* ------------------------------------------------------ process cleaner

MaxCleanups == 2

\* the registry a prior instance may have left behind
OldEntries ==
  {ProcessEntry("c1", 1234, "v2-session", OldInstance),
   ProcessEntry("c2", 5678, "tunnel", OldInstance),
   ProcessEntry("c2", NoPid, "v2-session", OldInstance)}

\* registry: the entries of other instances are dropped
clearOrphanEntries(reg) == getCurrentProcesses(reg)

\* collector.ts:290-294: an empty CleanupResult, with the process table the
\* call works on, the processes it signalled and how often it signalled a pid
EmptyCleanup(table) ==
  [table |-> table, cleaned |-> 0, failed |-> 0, details |-> {},
   signalled |-> {}, sent |-> [pid \in Pids |-> 0]]

\* collector.ts:318-330, 364-376: one kill of cleanupOrphans and its count
killOrphan(st, pid, response) ==
  LET k == killProcess(st.table, pid, "SIGTERM", response[pid])
  IN  [table |-> k.table,
       cleaned |-> IF k.threw THEN st.cleaned ELSE st.cleaned + 1,
       failed |-> IF k.threw THEN st.failed + 1 ELSE st.failed,
       details |-> IF k.threw THEN st.details ELSE st.details \cup {pid},
       signalled |-> st.signalled \cup {st.table[pid]},
       sent |-> [st.sent EXCEPT ![pid] = @ + 1]]

\* collector.ts:308-332: step 1, the orphan entries of the registry by pid
RECURSIVE killByPid(_, _, _)
killByPid(entries, st, response) ==
  IF entries = {} THEN st
  ELSE LET entry == CHOOSE e \in entries : \A o \in entries : e.pid <= o.pid
           next == IF entry.pid # NoPid /\ isProcessAlive(st.table, entry.pid)
                     THEN killOrphan(st, entry.pid, response)
                     ELSE st
       IN  killByPid(entries \ {entry}, next, response)

\* collector.ts:343-377: step 2, the processes found by their arguments
RECURSIVE killByArgs(_, _, _)
killByArgs(pids, st, response) ==
  IF pids = {} THEN st
  ELSE LET pid == CHOOSE p \in pids : \A o \in pids : p <= o
           skip == \/ instanceOf(st.table[pid]) = CurrentInstance
                   \/ pid \in st.details
                   \/ ~isProcessAlive(st.table, pid)
           next == IF skip THEN st ELSE killOrphan(st, pid, response)
       IN  killByArgs(pids \ {pid}, next, response)

\* Faulty variant of cleanupOrphans: the orphan entries stay in the registry.
cleanupOrphansKeepsEntries(reg, table, currentInstanceId, scanFails, response) ==
  LET byPid == killByPid(getOrphanProcesses(reg), EmptyCleanup(table), response)
      byArgs == killByArgs(findByArgs(byPid.table, scanFails), byPid, response)
  IN  [result |-> byArgs, registry |-> reg]

\* collector.ts:289-387
cleanupOrphans(reg, table, currentInstanceId, scanFails, response) ==
  IF currentInstanceId = ""
    THEN [result |-> EmptyCleanup(table), registry |-> reg]
  ELSE LET byPid == killByPid(getOrphanProcesses(reg), EmptyCleanup(table), response)
           byArgs == killByArgs(findByArgs(byPid.table, scanFails), byPid, response)
       IN  [result |-> byArgs, registry |-> clearOrphanEntries(reg)]

\* no killProcess call yet
NoKill == [pid |-> NoPid]

\* no cleanupOrphans call yet
NoCleanup == [cleaned |-> -1]

\* collector.ts:289-387: a call of cleanupOrphans, from its start to its return
CleanupOrphans ==
  /\ cleanups < MaxCleanups
  /\ \E scanFails \in BOOLEAN, response \in [Pids -> Responses] :
       LET c == cleanupOrphans(registry, procs, systemState.instanceId,
                               scanFails, response)
       IN  /\ procs' = c.result.table
           /\ registry' = c.registry
           /\ signalled' = signalled \cup c.result.signalled
           /\ lastCleanup' = [cleaned |-> c.result.cleaned,
                              failed |-> c.result.failed,
                              sent |-> c.result.sent,
                              entries |-> Cardinality(getOrphanProcesses(registry)),
                              nothingNew |-> cleanups > 0 /\ ~fresh]
  /\ cleanups' = cleanups + 1
  /\ fresh' = FALSE
  /\ UNCHANGED <<lastKill, live, report>>
  /\ UNCHANGED nonCleanerVars

\* collector.ts:179-197: a call of the platform operation killProcess
KillProcess ==
  /\ \E pid \in Pids, signal \in Signals, response \in Responses :
       LET k == killProcess(procs, pid, signal, response)
       IN  /\ procs' = k.table
           /\ lastKill' = [pid |-> pid, signal |-> signal, threw |-> k.threw,
                           gone |-> k.table[pid] = NoProcess]
  /\ UNCHANGED <<signalled, cleanups, fresh, lastCleanup>>
  /\ UNCHANGED registryVars
  /\ UNCHANGED nonCleanerVars

\* the operating system starts a process under a free pid
ProcessStarts ==
  /\ \E pid \in Pids, proc \in Processes :
       /\ procs[pid] = NoProcess
       /\ proc.owner # "old"
       /\ procs' = [procs EXCEPT ![pid] = proc]
  /\ fresh' = TRUE
  /\ UNCHANGED <<signalled, lastKill, cleanups, lastCleanup>>
  /\ UNCHANGED registryVars
  /\ UNCHANGED nonCleanerVars

\* a process ends by itself
ProcessExits ==
  /\ \E pid \in Pids :
       /\ procs[pid] # NoProcess
       /\ procs' = [procs EXCEPT ![pid] = NoProcess]
  /\ UNCHANGED <<signalled, lastKill, cleanups, fresh, lastCleanup>>
  /\ UNCHANGED registryVars
  /\ UNCHANGED nonCleanerVars

\* ----------------------------------------------------------- specification

Init ==
  /\ systemState = InitialSystemState
  /\ selfFailures = 0
  /\ pollIntervalId = FALSE
  /\ healthChangeCallback = FALSE
  /\ lastKnownStatus = "healthy"
  /\ lastComputed = "healthy"
  /\ lastReported = NoStatusChange
  /\ handlerRegistered = FALSE
  /\ recoveries = [a \in Attempts |-> 0]
  /\ emitted = <<>>
  /\ handled = <<>>
  /\ lastRun = NoRun
  /\ selections = <<>>
  /\ now = 1000
  /\ lastCheckTime = 0
  /\ isCheckRunning = FALSE
  /\ lastCheckPromise = 0
  /\ running = {}
  /\ scans = 0
  /\ calls = <<>>
  /\ registry = {}
  /\ live = [k \in Keys |-> NoEntry]
  /\ report = NoReport
  /\ probeState = [name \in ProbeNames |-> Idle]
  /\ startup = Idle
  /\ timeouts = {}
  /\ procs = [pid \in Pids |-> NoProcess]
  /\ signalled = {}
  /\ lastKill = NoKill
  /\ cleanups = 0
  /\ fresh = FALSE
  /\ lastCleanup = NoCleanup
  /\ marker = NoMarker
  /\ shutDown = FALSE
  /\ prevShutDown = FALSE
  /\ lastExitRead = "none"
  /\ ended = 0
  /\ configFile = MissingFile
  /\ configResult = Idle
  /\ lastQuery = NoQuery
  /\ diskConfig = DEFAULT_CONFIG
  /\ apiConfigChangeHandlers = <<>>
  /\ pendingNotify = 0
  /\ saves = 0
  /\ lastSave = NoSave
  /\ lastNotify = NoNotify
  /\ v2Sessions = [c \in Ids |-> NoSession]
  /\ activeSessions = {}
  /\ pendingInvalidations = {}
  /\ creating = [c \in Ids |-> 0]
  /\ created = 0
  /\ spawned = {}
  /\ owed = {}

Next ==
  \/ InitInstanceId
  \/ InitializeHealthSystem
  \/ EmitHealthEvent
  \/ RecoveryComplete
  \/ TriggerRecovery
  \/ TriggerRecoveryWithUI
  \/ FallbackPoll
  \/ ShutdownHealthSystem

Spec == Init /\ [][Next]_vars

\* The escalation ladder: events, the recoveries they start and manual
\* triggers, with room for three events, from the state a successful
\* initializeHealthSystem leaves.
InitRecovery ==
  /\ systemState = [InitialSystemState EXCEPT !.instanceId = "i1",
                                             !.isPollingActive = TRUE]
  /\ selfFailures = 0
  /\ pollIntervalId = TRUE
  /\ healthChangeCallback = TRUE
  /\ lastKnownStatus = "healthy"
  /\ lastComputed = "healthy"
  /\ lastReported = NoStatusChange
  /\ handlerRegistered = TRUE
  /\ recoveries = [a \in Attempts |-> 0]
  /\ emitted = <<>>
  /\ handled = <<>>
  /\ lastRun = NoRun
  /\ selections = <<>>
  /\ now = 1000
  /\ lastCheckTime = 0
  /\ isCheckRunning = FALSE
  /\ lastCheckPromise = 0
  /\ running = {}
  /\ scans = 0
  /\ calls = <<>>
  /\ registry = {}
  /\ live = [k \in Keys |-> NoEntry]
  /\ report = NoReport
  /\ probeState = [name \in ProbeNames |-> Idle]
  /\ startup = Idle
  /\ timeouts = {}
  /\ procs = [pid \in Pids |-> NoProcess]
  /\ signalled = {}
  /\ lastKill = NoKill
  /\ cleanups = 0
  /\ fresh = FALSE
  /\ lastCleanup = NoCleanup
  /\ marker = NoMarker
  /\ shutDown = FALSE
  /\ prevShutDown = FALSE
  /\ lastExitRead = "none"
  /\ ended = 0
  /\ configFile = MissingFile
  /\ configResult = Idle
  /\ lastQuery = NoQuery
  /\ diskConfig = DEFAULT_CONFIG
  /\ apiConfigChangeHandlers = <<>>
  /\ pendingNotify = 0
  /\ saves = 0
  /\ lastSave = NoSave
  /\ lastNotify = NoNotify
  /\ v2Sessions = [c \in Ids |-> NoSession]
  /\ activeSessions = {}
  /\ pendingInvalidations = {}
  /\ creating = [c \in Ids |-> 0]
  /\ created = 0
  /\ spawned = {}
  /\ owed = {}

NextRecovery ==
  \/ EmitLadderEvent
  \/ RecoveryComplete
  \/ TriggerRecovery
  \/ TriggerRecoveryWithUI

SpecRecovery == InitRecovery /\ [][NextRecovery]_vars

\* ------------------------------------------------- the recentEvents ring

\* The n-th event of a long stream: a configuration change stamped with
\* its position in the stream (HealthEvent.timestamp).
StreamEvent(n) ==
  [type |-> "config_change", category |-> "info", source |-> "config",
   timestamp |-> n]

\* orchestrator.ts:146-201: the next event of the stream is handled
EmitStreamEvent ==
  LET event == StreamEvent(Len(emitted) + 1)
  IN  /\ Len(emitted) < MaxRingEvents
      /\ Deliver(event, "none", TRUE)

\* The stream, with initialisations (which can raise, up to self-disable)
\* and shutdowns in between, from an initialised system.
NextRing ==
  \/ EmitStreamEvent
  \/ InitializeHealthSystem
  \/ ShutdownHealthSystem

SpecRing == InitRecovery /\ [][NextRing]_vars

\* part_001:105: the caller of runImmediateCheck takes the result
TakeReport ==
  /\ report # NoReport
  /\ report' = NoReport
  /\ UNCHANGED <<registry, live>>
  /\ UNCHANGED nonRegistryVars

\* Registrations and unregistrations of sessions and tunnels.
NextRegistry ==
  \/ RegisterProcess
  \/ UnregisterProcess

SpecRegistry == Init /\ [][NextRegistry]_vars

\* The scans of the immediate check over a changing registry.
NextScan ==
  \/ RegisterScanned
  \/ UnregisterScanned
  \/ Scan
  \/ TakeReport

SpecScan == Init /\ [][NextScan]_vars

\* The agent sessions: creation, requests, invalidation, closing.
NextSessions ==
  \/ \E c \in Ids, rebuild \in BOOLEAN : GetOrCreateV2Session(c, rebuild)
  \/ \E c \in Ids, pidExposed \in BOOLEAN : CreateSessionResolves(c, pidExposed)
  \/ \E c \in Ids : CreateSessionRejects(c)
  \/ \E c \in Ids : RegisterActiveSession(c)
  \/ \E c \in Ids : UnregisterActiveSession(c)
  \/ InvalidateAllSessions
  \/ \E c \in Ids : CloseV2Session(c)

SpecSessions == Init /\ [][NextSessions]_vars

\* Every request ends: unregisterActiveSession is called for it.
SpecSessionsLive ==
  SpecSessions /\ \A c \in Ids : WF_vars(UnregisterActiveSession(c))

\* The startup checks: the four probes run in parallel.
NextProbes ==
  \/ RunStartupChecks
  \/ ProbeSettles
  \/ StartupChecksReturn

SpecProbes == Init /\ [][NextProbes]_vars

\* The cleaner at the start of an instance: the registry and the processes a
\* prior instance left behind, the processes started since.
InitCleaner ==
  /\ systemState = [InitialSystemState EXCEPT !.instanceId = "i1"]
  /\ selfFailures = 0
  /\ pollIntervalId = FALSE
  /\ healthChangeCallback = FALSE
  /\ lastKnownStatus = "healthy"
  /\ lastComputed = "healthy"
  /\ lastReported = NoStatusChange
  /\ handlerRegistered = FALSE
  /\ recoveries = [a \in Attempts |-> 0]
  /\ emitted = <<>>
  /\ handled = <<>>
  /\ lastRun = NoRun
  /\ selections = <<>>
  /\ now = 1000
  /\ lastCheckTime = 0
  /\ isCheckRunning = FALSE
  /\ lastCheckPromise = 0
  /\ running = {}
  /\ scans = 0
  /\ calls = <<>>
  /\ registry \in {reg \in SUBSET OldEntries :
                     \A e1, e2 \in reg : KeyOf(e1) = KeyOf(e2) => e1 = e2}
  /\ live = [k \in Keys |-> NoEntry]
  /\ report = NoReport
  /\ probeState = [name \in ProbeNames |-> Idle]
  /\ startup = Idle
  /\ timeouts = {}
  /\ procs \in [Pids -> Processes \cup {NoProcess}]
  /\ signalled = {}
  /\ lastKill = NoKill
  /\ cleanups = 0
  /\ fresh = FALSE
  /\ lastCleanup = NoCleanup
  /\ marker = NoMarker
  /\ shutDown = FALSE
  /\ prevShutDown = FALSE
  /\ lastExitRead = "none"
  /\ ended = 0
  /\ configFile = MissingFile
  /\ configResult = Idle
  /\ lastQuery = NoQuery
  /\ diskConfig = DEFAULT_CONFIG
  /\ apiConfigChangeHandlers = <<>>
  /\ pendingNotify = 0
  /\ saves = 0
  /\ lastSave = NoSave
  /\ lastNotify = NoNotify
  /\ v2Sessions = [c \in Ids |-> NoSession]
  /\ activeSessions = {}
  /\ pendingInvalidations = {}
  /\ creating = [c \in Ids |-> 0]
  /\ created = 0
  /\ spawned = {}
  /\ owed = {}

NextCleaner ==
  \/ CleanupOrphans
  \/ KillProcess
  \/ ProcessStarts
  \/ ProcessExits

SpecCleaner == InitCleaner /\ [][NextCleaner]_vars

\* The process enumerations against a process table that changes.
NextQuery ==
  \/ FindByArgs
  \/ FindChildProcesses
  \/ ProcessStarts
  \/ ProcessExits

SpecQuery == Init /\ [][NextQuery]_vars

\* The configuration service: saves, subscriptions and the timer.
NextSave ==
  \/ SaveConfig
  \/ OnApiConfigChange
  \/ Unsubscribe
  \/ NotifyTimer

SpecSave == Init /\ [][NextSave]_vars

\* The runs of the host one after the other: each marks its start,
\* initialises, reads the last exit, and ends with or without a shutdown.
NextRuns ==
  \/ Bootstrap
  \/ InitializeHealthSystem
  \/ WasLastExitClean
  \/ Quit
  \/ ProcessEnds

SpecRuns == Init /\ [][NextRuns]_vars

\* The config probe over the configuration files it can meet.
NextConfig ==
  \/ WriteConfigFile
  \/ RunConfigProbe

SpecConfig == Init /\ [][NextConfig]_vars

\* ---------------------------------------------------- the immediate check

\* the clock advances by a quarter of a second or by a second
ClockSteps == {250, 1000}

\* The module state of the immediate check, as one run of runImmediateCheck
\* sees it.
Checker ==
  [ lastCheckTime    |-> lastCheckTime,
    isCheckRunning   |-> isCheckRunning,
    lastCheckPromise |-> lastCheckPromise,
    running          |-> running,
    scans            |-> scans ]

\* Faulty variant of isLocked: the running check is not waited for.
isLockedNever(c) == FALSE

\* Faulty variant of isDebounced: the interval is measured in seconds.
isDebouncedInSeconds(c, t) ==
  /\ c.lastCheckTime # 0
  /\ (t - c.lastCheckTime) * 1000 < MIN_CHECK_INTERVAL_MS
  /\ c.lastCheckPromise # 0

\* runtime-checker.ts:189: a check was started less than the minimum
\* interval ago
isDebounced(c, t) ==
  /\ c.lastCheckTime # 0
  /\ (t - c.lastCheckTime) < MIN_CHECK_INTERVAL_MS
  /\ c.lastCheckPromise # 0

\* runtime-checker.ts:195: a check is running
isLocked(c) == c.isCheckRunning /\ c.lastCheckPromise # 0

\* runtime-checker.ts:208-211: doImmediateCheck up to its first await; the
\* promise it returns is numbered after the scan
doImmediateCheck(c, t) ==
  [c EXCEPT !.isCheckRunning = TRUE,
            !.lastCheckTime = t,
            !.scans = @ + 1,
            !.running = @ \cup {c.scans + 1}]

\* runtime-checker.ts:186-203; the promise returned is lastCheckPromise
\* of the result
runImmediateCheck(c, t) ==
  IF isDebounced(c, t) THEN c
  ELSE IF isLocked(c) THEN c
  ELSE LET c1 == doImmediateCheck(c, t)
       IN  [c1 EXCEPT !.lastCheckPromise = c1.scans]

\* the history entry of a call: when it was made, the promise it got,
\* whether it started a scan, and what it found: the scans in flight, the
\* start of the previous scan (0: none) and the number of the latest scan
Call(c, t, c1) ==
  [ t         |-> t,
    promise   |-> c1.lastCheckPromise,
    started   |-> c1.scans # c.scans,
    inFlight  |-> Cardinality(c.running),
    prevStart |-> c.lastCheckTime,
    latest    |-> c.scans ]

CommitChecker(c) ==
  /\ lastCheckTime' = c.lastCheckTime
  /\ isCheckRunning' = c.isCheckRunning
  /\ lastCheckPromise' = c.lastCheckPromise
  /\ running' = c.running
  /\ scans' = c.scans

\* Date.now() grows between two macrotasks
Tick ==
  \E d \in ClockSteps :
    /\ now < MaxTime
    /\ now' = now + d
    /\ UNCHANGED <<lastCheckTime, isCheckRunning, lastCheckPromise,
                   running, scans, calls>>
    /\ UNCHANGED nonCheckVars

\* runtime-checker.ts:186-203: a caller (the health:run-check IPC handler,
\* the startup checks) calls runImmediateCheck
RunImmediateCheck ==
  LET c1 == runImmediateCheck(Checker, now)
  IN  /\ Len(calls) < MaxCalls
      /\ CommitChecker(c1)
      /\ calls' = Append(calls, Call(Checker, now, c1))
      /\ UNCHANGED now
      /\ UNCHANGED nonCheckVars

\* Faulty variant of finishScan: the finally block is missing.
finishScanKeepsLock(c, id) == [c EXCEPT !.running = @ \ {id}]

\* runtime-checker.ts:415-417: the finally block of doImmediateCheck
finishScan(c, id) ==
  [c EXCEPT !.running = @ \ {id}, !.isCheckRunning = FALSE]

\* runtime-checker.ts:213-417: a scan returns or throws, and its finally
\* clears the flag
ScanComplete ==
  \E id \in running :
    /\ CommitChecker(finishScan(Checker, id))
    /\ UNCHANGED <<now, calls>>
    /\ UNCHANGED nonCheckVars

NextCheck ==
  \/ Tick
  \/ RunImmediateCheck
  \/ ScanComplete

SpecCheck == Init /\ [][NextCheck]_vars

\* Every await of a scan is bounded by a timeout (collector.ts:142, 223 and
\* the service probes), so a scan that runs reaches its finally.
SpecCheckLive == SpecCheck /\ WF_vars(ScanComplete)

\* ------------------------------------------------------------- properties

\* the last step delivered an event to handleHealthEvent
Handled == emitted' # emitted

\* the event the last step delivered
HandledEvent == Head(emitted')

\* C1: once the fifth exception inside the orchestrator has been counted,
\* isEnabled is false and isPollingActive() is false in every later state,
\* whatever operation follows.
C1_DisabledStaysStopped ==
  selfFailures >= MAX_SELF_FAILURES =>
    ~systemState.isEnabled /\ ~isPollingActive

\* C2: isEnabled starts true and no step changes it from false to true, so
\* it becomes false at most once.
C2_DisabledIsTerminal ==
  /\ systemState.isEnabled
  /\ [][~systemState.isEnabled => ~systemState'.isEnabled]_vars

\* the system was disabled and initializeHealthSystem ran again afterwards
C2_Witness == ~systemState.isEnabled /\ isPollingActive

\* C3, as stated: any two calls of runImmediateCheck made within 500 ms of
\* each other get the same promise, and the later one starts no scan.
C3_AnyTwoCallsShare ==
  \A i, j \in 1..Len(calls) :
    (i < j /\ calls[j].t - calls[i].t <= 500) =>
      /\ calls[j].promise = calls[i].promise
      /\ ~calls[j].started

\* C3, amended: when a call starts a scan, every call made within 500 ms of
\* it gets the promise of that scan and starts no scan, whether that scan is
\* still running or has finished.
C3_CallsAfterAStartShare ==
  \A i, j \in 1..Len(calls) :
    (i < j /\ calls[i].started /\ calls[j].t - calls[i].t <= 500) =>
      /\ calls[j].promise = calls[i].promise
      /\ ~calls[j].started

\* a call started a scan and two calls followed within 500 ms, one while the
\* scan was running and one after it had finished
C3_Witness ==
  /\ Len(calls) = 3
  /\ calls[1].started
  /\ calls[3].t - calls[1].t <= 500
  /\ calls[2].inFlight = 1
  /\ calls[3].inFlight = 0
  /\ calls[3].promise = calls[1].promise

\* C4: at most one scan is in progress; a call starts a scan only when none
\* is in flight and the previous scan, if any, started at least 2000 ms
\* before; every other call gets the promise of the most recent scan.
C4_SingleFlight ==
  /\ Cardinality(running) <= 1
  /\ \A i \in 1..Len(calls) :
       IF calls[i].started
         THEN /\ calls[i].inFlight = 0
              /\ \/ calls[i].prevStart = 0
                 \/ calls[i].t - calls[i].prevStart >= MIN_CHECK_INTERVAL_MS
         ELSE /\ calls[i].latest > 0
              /\ calls[i].promise = calls[i].latest

\* a call waited for the running scan, and a later call started the
\* second scan once the interval had passed
C4_Witness ==
  /\ Len(calls) = 3
  /\ ~calls[2].started /\ calls[2].inFlight = 1
  /\ calls[3].started /\ calls[3].prevStart # 0

\* C5: a critical event handled while the system is enabled raises
\* consecutiveFailures by exactly 1 and leaves the status unhealthy, also
\* when a call inside the handler fails.
C5_CriticalCountsAndMarks ==
  [][ (Handled /\ HandledEvent.category = "critical" /\ systemState.isEnabled) =>
        /\ systemState'.consecutiveFailures = systemState.consecutiveFailures + 1
        /\ systemState'.status = "unhealthy" ]_vars

\* what a warning does to the status and the failure count
WarningEffect ==
  /\ systemState'.status =
       IF systemState.status = "healthy" THEN "degraded" ELSE systemState.status
  /\ systemState'.consecutiveFailures = systemState.consecutiveFailures

\* C6, as stated: a warning handled while the status is healthy sets it to
\* degraded, a warning handled while it is degraded or unhealthy leaves it,
\* and no warning changes consecutiveFailures.
C6_WarningDegrades ==
  [][ (Handled /\ HandledEvent.category = "warning") => WarningEffect ]_vars

\* C6, amended: the same, for a warning handled while the system is enabled.
C6_WarningDegradesWhileEnabled ==
  [][ (Handled /\ HandledEvent.category = "warning" /\ systemState.isEnabled) =>
        WarningEffect ]_vars

\* a warning was handled by the enabled system after a critical event had
\* made it unhealthy, and the status is still unhealthy
C6_Witness ==
  /\ Len(emitted) = 2
  /\ emitted[1].category = "warning"
  /\ emitted[2].category = "critical"
  /\ systemState.isEnabled
  /\ systemState.status = "unhealthy"
  /\ systemState.consecutiveFailures = 1

\* C7: a recovery_success or startup_check info event handled while enabled
\* sets consecutiveFailures to 0 and the status to healthy; any other info
\* event changes neither.
C7_ResetEventResets ==
  [][ (Handled /\ HandledEvent.category = "info" /\ systemState.isEnabled) =>
        IF isResetEvent(HandledEvent)
          THEN /\ systemState'.consecutiveFailures = 0
               /\ systemState'.status = "healthy"
          ELSE /\ systemState'.consecutiveFailures = systemState.consecutiveFailures
               /\ systemState'.status = systemState.status ]_vars

\* C8: consecutiveFailures never decreases except to 0, and that only in
\* the step that handles a recovery_success or startup_check info event.
C8_OnlyResetEventsReset ==
  [][ \/ systemState'.consecutiveFailures >= systemState.consecutiveFailures
      \/ /\ systemState'.consecutiveFailures = 0
         /\ Handled
         /\ isResetEvent(HandledEvent) ]_vars

\* C9: a selected S1 or S2 is awaited by attemptRecovery, which never
\* prompts, a selected S3 or S4 by attemptRecoveryWithUI, which runs the
\* dialog; and no step, automatic or manual, runs the action of S3 or S4
\* without the user's consent.
C9_ConsentBeforeDisruptive ==
  /\ lastRun.strategyId \in {"S3", "S4"} => lastRun.consented
  /\ \A a \in Attempts :
       recoveries[a] > 0 =>
         (a.fn = "attemptRecovery" <=> a.strategyId \in {"S1", "S2"})

\* three critical events selected S1, S2 and S3, each started by the
\* orchestrator, and S3 has just run after the user agreed in the dialog
C9_Witness ==
  /\ selections = <<"S1", "S2", "S3">>
  /\ systemState.recoveryAttempts = 3
  /\ lastRun = Run("S3", TRUE)

\* C10: over consecutive critical events the selected strategies escalate:
\* three of them select S1, S2, S3, and a later selection is never lighter
\* than an earlier one.
C10_SelectionsEscalate ==
  /\ \A i, j \in 1..Len(selections) :
       i < j => Rank(selections[i]) <= Rank(selections[j])
  /\ Len(selections) = 3 => selections = <<"S1", "S2", "S3">>

\* the first n entries of a sequence, all of it when it is shorter
Newest(seq, n) == SubSeq(seq, 1, IF Len(seq) < n THEN Len(seq) ELSE n)

\* C11: recentEvents never holds more than 50 entries and is exactly the
\* 50 most recently handled events (all of them while fewer were handled),
\* newest first, so the oldest is the one evicted.
C11_RingHoldsNewest ==
  /\ Len(systemState.recentEvents) <= MAX_RECENT_EVENTS
  /\ systemState.recentEvents = Newest(handled, MAX_RECENT_EVENTS)

\* 52 events were handled: the ring is full and has evicted the two oldest
C11_Witness ==
  /\ Len(handled) = MAX_RECENT_EVENTS + 2
  /\ Len(systemState.recentEvents) = MAX_RECENT_EVENTS
  /\ systemState.recentEvents[MAX_RECENT_EVENTS].timestamp = 3

\* the entries of the registry a scan read whose pid is no child of the host
StaleEntries ==
  {e \in getCurrentProcesses(report.before) :
     e.pid # NoPid /\ report.input.children[e.pid] = "none"}

\* the scan found nothing wrong apart from the stale entries: it could list
\* the children, every other entry with a pid has its child, every claude
\* or cloudflared child has its entry, the services that run respond and
\* the heap is below the warning threshold
NothingElseWrong ==
  LET in == report.input
      current == getCurrentProcesses(report.before)
  IN  /\ ~in.scanFails
      /\ \A e \in current \ StaleEntries :
           e.pid # NoPid => e.pid \in processesOfType(in, e.type)
      /\ \A p \in claudeProcesses(in) :
           \E e \in current : e.type = "v2-session" /\ e.pid = p
      /\ \A p \in cloudflaredProcesses(in) :
           \E e \in current : e.type = "tunnel" /\ e.pid = p
      /\ in.router \in {"absent", "responsive"}
      /\ in.server \in {"absent", "responsive"}
      /\ ~in.heapHigh

\* C12: when the registry holds one current-instance entry whose pid is not
\* a live child of the host and nothing else is wrong, the scan removes
\* that entry, reports registryCleanup.removed = 1 and reports healthy.
C12_DeadEntryCleaned ==
  (report # NoReport /\ Cardinality(StaleEntries) = 1 /\ NothingElseWrong) =>
    /\ StaleEntries \cap report.after = {}
    /\ report.after = report.before \ StaleEntries
    /\ report.removed = 1
    /\ report.healthy

\* a scan found one of two entries stale, the other with its child alive
C12_Witness ==
  /\ report # NoReport
  /\ Cardinality(StaleEntries) = 1
  /\ NothingElseWrong
  /\ Cardinality(report.before) = 2
  /\ Cardinality(report.after) = 1
  /\ registry = report.after

\* C13: the snapshot is healthy exactly when its issue list is empty, or
\* its only issue is the dead-entry cleanup and no running service is
\* unresponsive.
C13_HealthyIffOnlyCleanup ==
  report # NoReport =>
    (report.healthy <=>
       \/ report.issues = <<>>
       \/ /\ report.issues = <<"Cleaned dead process entries">>
          /\ report.input.router \in {"absent", "responsive"}
          /\ report.input.server \in {"absent", "responsive"})

\* a scan whose only issue is the cleanup of two dead entries, reported
\* healthy
C13_Witness ==
  /\ report # NoReport
  /\ report.removed = 2
  /\ report.issues = <<"Cleaned dead process entries">>
  /\ report.healthy

\* C20: getCurrentProcesses() is exactly the set of entries registered and
\* not unregistered since, one per (id, type).
C20_RegistryIsLiveSet ==
  /\ getCurrentProcesses(registry) = {live[k] : k \in Keys} \ {NoEntry}
  /\ \A e1, e2 \in getCurrentProcesses(registry) :
       KeyOf(e1) = KeyOf(e2) => e1 = e2

\* three entries are registered, one of them without a pid, and one key
\* is free
C20_Witness ==
  /\ Cardinality(getCurrentProcesses(registry)) = 3
  /\ live[<<"c1", "v2-session">>].pid = 5678
  /\ live[<<"c2", "v2-session">>].pid = NoPid
  /\ live[<<"c1", "tunnel">>] = NoEntry

\* the probe has settled after the named mishap
Suffered(name, how) ==
  probeState[name].kind = "result" /\ probeState[name].how = how

\* C17: no probe throws, and a probe that hit an internal fault resolved to
\* healthy = true with severity = warning.
C17_FaultsDegradeToWarning ==
  \A name \in ProbeNames :
    /\ probeState[name].kind # "rejected"
    /\ (Suffered(name, "internal fault") \/ Suffered(name, "rejected")
          \/ Suffered(name, "timeout")) =>
         /\ probeState[name].healthy
         /\ probeState[name].severity = "warning"

\* C18: when a probe timed out during the startup checks, its result is
\* healthy = true with severity = warning, and the result the checks
\* return holds the results of all four probes.
C18_TimeoutDoesNotStopChecks ==
  (startup.kind = "result" /\ timeouts # {}) =>
    /\ \A name \in timeouts :
         /\ probeState[name].kind = "result"
         /\ probeState[name].healthy
         /\ probeState[name].severity = "warning"
    /\ Len(startup.probes) = 4
    /\ \A name \in ProbeNames :
         \E i \in 1..4 : startup.probes[i] = probeState[name]

\* the checks returned after the config probe timed out, with the port
\* probe's critical finding in the result
C18_Witness ==
  /\ startup.kind = "result"
  /\ "config" \in timeouts
  /\ startup.probes[1] = ProbeResult("config", TRUE, "warning", "timeout")
  /\ startup.probes[2] = ProbeResult("port", FALSE, "critical", "returned")
  /\ startup.status = "unhealthy"

\* C19: a triggerRecovery request for S3 or S4 without consent runs no
\* recovery action and changes no field of the health system state.
C19_RefusedRequestChangesNothing ==
  [][ \A strategyId \in {"S3", "S4"} :
        triggerRecovery(strategyId, FALSE) =>
          /\ lastRun' = NoRun
          /\ systemState' = systemState ]_vars

\* C16: whenever killProcess returns without an error, the process it was
\* asked to kill is no longer alive.
C16_ReturnMeansGone ==
  (lastKill # NoKill /\ ~lastKill.threw) => lastKill.gone

\* C15: cleanupOrphans signals only processes started by a prior instance,
\* never one of the current instance nor one that reuses a recorded pid.
C15_OnlyOldProcessesSignalled ==
  \A proc \in signalled : proc.owner = "old"

\* C14: a second cleanupOrphans call, made when nothing appeared since the
\* first completed, returns cleaned = 0 and failed = 0.
C14_SecondCleanupFindsNothing ==
  (lastCleanup # NoCleanup /\ lastCleanup.nothingNew) =>
    (lastCleanup.cleaned = 0 /\ lastCleanup.failed = 0)

\* C21: wasLastExitClean() reports true exactly when the run before the
\* current one executed shutdownHealthSystem, and so markCleanExit, before
\* it ended; what the current run wrote is never what it reads.
C21_CleanExitSeenByNextRun ==
  lastExitRead # "none" => (lastExitRead = "clean" <=> prevShutDown)

\* a run that has marked its own start reads the clean exit of the run
\* before it
C21_Witness ==
  /\ lastExitRead = "clean"
  /\ prevShutDown
  /\ marker.file = "started"

\* C22: a scan whose only findings are dead registry entries or children
\* no entry records, with the services that run responsive, reports
\* healthy.
C22_BookkeepingIsSilent ==
  (/\ report # NoReport
   /\ ~report.input.scanFails
   /\ ~hasServiceIssues(report.input)
   /\ ~report.input.heapHigh
   /\ (report.removed > 0 \/ report.orphans > 0)) =>
    report.healthy

\* C23: after a cleanupOrphans call with the instance id set, the registry
\* holds no orphan entry, whatever the kills and the args scan did.
C23_NoOrphanEntryLeft ==
  lastCleanup # NoCleanup => getOrphanProcesses(registry) = {}

\* a call that found two orphan entries and failed to kill a process left
\* no orphan entry
C23_Witness ==
  /\ lastCleanup # NoCleanup
  /\ lastCleanup.entries = 2
  /\ lastCleanup.failed >= 1
  /\ getOrphanProcesses(registry) = {}

\* C24: within one cleanupOrphans call every pid is signalled at most once
\* and counted at most once in cleaned + failed.
C24_EachPidSignalledOnce ==
  lastCleanup # NoCleanup =>
    /\ \A pid \in Pids : lastCleanup.sent[pid] <= 1
    /\ lastCleanup.cleaned + lastCleanup.failed
         <= Cardinality({pid \in Pids : lastCleanup.sent[pid] > 0})

\* the file names its active source and has a permissions object
SchemaComplete ==
  /\ configFile.permissions
  /\ \/ configFile.version = 1 /\ configFile.current \in {"custom", "github"}
     \/ configFile.version = 2 /\ configFile.current # "absent"

\* the active source has a non-empty API key, or an access token when it
\* signs in with OAuth
ActiveSourceHasCredentials ==
  LET withKey == IF configFile.version = 2 THEN configFile.authType = "api-key"
                 ELSE configFile.current = "custom"
      withToken == IF configFile.version = 2 THEN configFile.authType = "oauth"
                   ELSE configFile.current = "github"
  IN  /\ configFile.current \in {"custom", "github"}
      /\ \/ withKey /\ configFile.apiKey = "sk-1"
         \/ withToken /\ configFile.accessToken = "tok-1"

\* C25: the config probe gives info for a missing file, an unhealthy
\* critical for a file that is not JSON or lacks the source selector or the
\* permissions, a warning for a complete file without credentials for the
\* active source, and a healthy info for one with credentials.
C25_ConfigClassified ==
  (configResult.kind = "result" /\ configResult.how = "returned") =>
    IF configFile.file = "missing" THEN configResult.severity = "info"
    ELSE IF configFile.file = "invalid" \/ ~SchemaComplete
      THEN configResult.severity = "critical" /\ ~configResult.healthy
    ELSE IF ~ActiveSourceHasCredentials THEN configResult.severity = "warning"
    ELSE configResult.severity = "info" /\ configResult.healthy

\* a version-2 file whose active source has an empty API key got a warning
C25_Witness ==
  /\ configResult.kind = "result"
  /\ configResult.how = "returned"
  /\ configFile.version = 2
  /\ SchemaComplete
  /\ configFile.authType = "api-key"
  /\ configFile.apiKey = ""
  /\ configResult.severity = "warning"

\* C26: a passive check leaves the registry alone and starts no scan and no
\* probe; it computes unhealthy on a critical event of the last minute, on
\* three consecutive errors or on a heap above the critical ceiling,
\* degraded on any other issue and healthy otherwise; and it calls the
\* status callback only when that status differs from the one the check
\* before it computed.
C26_PassiveCheckReportsTransitions ==
  [][ \A in \in PollInputs, fault \in {"none", "sendToRenderer"} :
        fallbackPoll(in, fault) =>
          /\ UNCHANGED <<registry, scans, running, isCheckRunning, probeState, procs>>
          /\ lastComputed' =
               IF in.recentCritical > 0 \/ in.totalErrors >= 3 \/ in.heap = "critical"
                 THEN "unhealthy"
               ELSE IF in.orphanProcesses > 0 \/ in.totalErrors > 0 \/ in.heap = "high"
                 THEN "degraded"
               ELSE "healthy"
          /\ callbackInvoked(lastKnownStatus, healthChangeCallback, lastComputed') =>
               lastComputed' # lastComputed ]_vars

\* the fields of HealthSystemState the handling of events maintains
StateFields ==
  <<systemState.status, systemState.consecutiveFailures,
    systemState.recoveryAttempts, systemState.recentEvents,
    systemState.isEnabled>>

\* C27: status, consecutiveFailures, recoveryAttempts, recentEvents and
\* isEnabled change only in a step that handles a health event.
C27_OnlyEventsMutateState ==
  [][ StateFields' # StateFields => emitted' # emitted ]_vars

\* the recoveries a step starts: the attempts awaited after it and not before
Started == {a \in Attempts : recoveries'[a] > recoveries[a]}

\* The handler reached the condition of orchestrator.ts:177 and it was
\* false: selectRecoveryStrategy returned null, or canRecover() returned
\* false.
RecoveryDeclined(event, fault, can) ==
  /\ event.category = "critical"
  /\ fault \notin {"updateErrorCount", "selectRecoveryStrategy", "canRecover"}
  /\ \/ selectRecoveryStrategy(systemState.consecutiveFailures + 1,
                               event.source) = NoStrategy
     \/ ~can

\* C28: a handled critical event starts at most one recovery (one more
\* awaited attempt, of one strategy), and none when no strategy is selected
\* or canRecover() answers false, in which case the failure is still counted
\* and the status still set to unhealthy; a recovery is started by nothing
\* but the handling of a critical event, so one that fails is not started
\* again until the next critical event arrives.
C28_OneRecoveryPerCriticalEvent ==
  [][ /\ Cardinality(Started) <= 1
      /\ \A a \in Started : recoveries'[a] = recoveries[a] + 1
      /\ Started # {} =>
           /\ Handled
           /\ HandledEvent.category = "critical"
           /\ systemState.isEnabled
      /\ \A event \in Events, fault \in HandlerFaults, can \in BOOLEAN :
           (systemState.isEnabled /\ RecoveryDeclined(event, fault, can)
              /\ Deliver(event, fault, can)) =>
             /\ Started = {}
             /\ systemState'.consecutiveFailures =
                  systemState.consecutiveFailures + 1
             /\ systemState'.status = "unhealthy" ]_vars

\* A critical event was declined a recovery by canRecover() while the
\* recovery of the event before it, which failed, is over: nothing is
\* awaited, two failures are counted and no strategy has run since.
C28_Witness ==
  /\ Len(handled) >= 2
  /\ handled[1].category = "critical" /\ handled[2].category = "critical"
  /\ systemState.consecutiveFailures = 2
  /\ systemState.recoveryAttempts = 1
  /\ systemState.status = "unhealthy"
  /\ \A a \in Attempts : recoveries[a] = 0

\* C29: findByArgs and findChildProcesses never raise; when the command
\* times out or fails they return the empty list, the very result of a
\* command that found no matching process.
C29_EnumerationNeverRaises ==
  lastQuery # NoQuery =>
    /\ ~lastQuery.result.raised
    /\ lastQuery.outcome \in {"timeout", "failed"} =>
         /\ lastQuery.result.list = {}
         /\ lastQuery.result = queryProcesses({}, "output")

\* An enumeration timed out while a process matched.
C29_Witness ==
  /\ lastQuery.op = "findChildProcesses"
  /\ lastQuery.outcome = "timeout"
  /\ lastQuery.matches # {}
  /\ lastQuery.result.list = {}

\* C30: a save that changes the provider, the API key or the API URL of the
\* active AI source while a subscriber is registered sets the timer that
\* notifies, in the legacy and in the version-2 format; a save that changes
\* only a model does not; and the timer calls each registered subscriber
\* exactly once.
C30_CredentialChangeNotifies ==
  /\ (lastSave.credentialsChanged /\ lastSave.subscribed) => lastSave.scheduled
  /\ lastSave.onlyModel => ~lastSave.scheduled
  /\ \A h \in Handlers : lastNotify[h] <= 1

\* C32: in every state isEnabled is true exactly when fewer than
\* MAX_SELF_FAILURES self-failures have been counted.
C32_EnabledIffBelowThreshold ==
  systemState.isEnabled <=> selfFailures < MAX_SELF_FAILURES

\* the fifth self-failure has been counted
C32_Witness ==
  /\ selfFailures = MAX_SELF_FAILURES
  /\ ~systemState.isEnabled

\* C33: while the health system is disabled, the handling of a health event
\* of any category changes no field of the state, the event is not added to
\* recentEvents, and no recovery is started.
C33_DisabledHandlerIsInert ==
  [][ (Handled /\ ~systemState.isEnabled) =>
        /\ systemState' = systemState
        /\ recoveries' = recoveries
        /\ selfFailures' = selfFailures ]_vars

\* an event was emitted while the system was disabled
C33_Witness ==
  /\ ~systemState.isEnabled
  /\ Len(emitted) > Len(handled)

\* the awaited recoveries a step completes
Completed == {a \in Attempts : recoveries'[a] < recoveries[a]}

\* A critical event was handled after the recovery a had started: the
\* strategy selected last is not the one a was started for.
NewerFailure(a) ==
  /\ selections # <<>>
  /\ selections[Len(selections)] # a.strategyId

\* C34: when a recovery completes after a later critical event was handled,
\* the failure count still counts that event and an unhealthy status stays
\* unhealthy, also when the recovery reports success.
C34_CompletionKeepsNewerFailure ==
  [][ \A a \in Completed :
        NewerFailure(a) =>
          /\ systemState'.consecutiveFailures = systemState.consecutiveFailures
          /\ systemState.status = "unhealthy" =>
               systemState'.status = "unhealthy" ]_vars

\* C35: every step that changes the status sends one health:status-change
\* message carrying the new and the previous status, so that the status
\* reported last is the current one.
C35_RendererKnowsStatus ==
  [][ systemState'.status # systemState.status =>
        lastReported' = StatusChange(systemState'.status, systemState.status) ]_vars

\* C37: after a passive poll the orchestrator's status is the status the
\* poll computed, so a poll that computes healthy returns it to healthy.
C37_PollSetsStatus ==
  [][ \A newStatus \in Statuses, fault \in {"none", "sendToRenderer"} :
        fallbackReport(newStatus, fault) =>
          systemState'.status = newStatus ]_vars

\* C39: isCheckRunning is true exactly while a scan is executing; a scan
\* that runs completes and clears it; and whenever no scan runs and the
\* cool-down is over, a call of runImmediateCheck starts a new scan.
C39_LockIsReleased ==
  /\ [](isCheckRunning <=> running # {})
  /\ [](/\ running = {}
        /\ ~isDebounced(Checker, now)
        => runImmediateCheck(Checker, now).scans = scans + 1)
  /\ (isCheckRunning ~> ~isCheckRunning)

\* a scan has completed and a later call has started the next one
C39_Witness ==
  /\ scans = 2
  /\ running = {2}
  /\ isCheckRunning

\* the entries of the current instance a scan unregistered although their
\* pid is a child of the host
RemovedWhileLive ==
  {e \in getCurrentProcesses(report.before) \ report.after :
     e.pid # NoPid /\ report.input.children[e.pid] # "none"}

\* C36: a scan unregisters an entry of the current instance only when its
\* process is not running: an entry whose pid is a live child of the host
\* is never removed, also when the enumeration of the children failed.
C36_LiveEntryNeverRemoved ==
  report # NoReport => RemovedWhileLive = {}

\* the session is the one v2Sessions keeps for its conversation and the
\* registry records it, under the conversation's id, with the pid it exposes
Tracked(s) ==
  /\ v2Sessions[s.conversationId] = s
  /\ ProcessEntry(s.conversationId, s.pid, "v2-session", CurrentInstance)
       \in registry

\* C38: whatever the interleaving of the getOrCreateV2Session calls, at
\* most one created session runs per conversation, and every session that
\* runs is the one kept in v2Sessions and recorded in the registry with its
\* own pid.
C38_OneTrackedSessionPerConversation ==
  /\ \A s \in spawned : Tracked(s)
  /\ \A s1, s2 \in spawned :
       s1.conversationId = s2.conversationId => s1 = s2

\* after the step the session is closed, unregistered and removed
ClosedAndRemoved(s) ==
  /\ s \notin spawned'
  /\ v2Sessions'[s.conversationId] = NoSession
  /\ \A e \in registry' : KeyOf(e) # <<s.conversationId, "v2-session">>

\* the step leaves the session running, kept and registered as it was
LeftOpen(s) ==
  /\ s \in spawned' <=> s \in spawned
  /\ v2Sessions'[s.conversationId] = s
  /\ \A e \in registry :
       KeyOf(e) = <<s.conversationId, "v2-session">> => e \in registry'

\* invalidateAllSessions closes the idle sessions at once and defers the
\* ones with a request in flight
InvalidationSplits ==
  InvalidateAllSessions =>
    \A c \in Ids :
      v2Sessions[c] # NoSession =>
        IF c \in activeSessions
        THEN LeftOpen(v2Sessions[c]) /\ c \in pendingInvalidations'
        ELSE ClosedAndRemoved(v2Sessions[c])

\* the end of the request closes a session whose invalidation was deferred
DeferredClose ==
  \A c \in Ids :
    (/\ UnregisterActiveSession(c)
     /\ c \in pendingInvalidations
     /\ v2Sessions[c] # NoSession) => ClosedAndRemoved(v2Sessions[c])

\* C31: invalidateAllSessions closes, unregisters and removes at once every
\* session without a request in flight and leaves the others open; those
\* are closed, unregistered and removed when unregisterActiveSession is
\* called for them; so every session that existed when it ran is
\* eventually closed.
C31_InvalidatedSessionsAreClosed ==
  /\ [][InvalidationSplits]_vars
  /\ [][DeferredClose]_vars
  /\ \A n \in 1..MaxSessions :
       (\E s \in owed : s.n = n) ~> (\A s \in spawned : s.n # n)

====
